---- MODULE Spec2Model ----
(***************************************************************************)
(* Token-level index of outlines-core: the token walk and the vocabulary   *)
(* scan of src/regex.rs, the worklist builder Index::new and the runtime   *)
(* queries of src/index.rs, the alphabet and FSM operations of             *)
(* src/interegular/fsm.rs, the regex parser and the lowering of its        *)
(* elements to FSMs of src/interegular/patterns.rs (on the parser          *)
(* primitives of src/interegular/simple_parser.rs), the anyOf, oneOf and   *)
(* integer encoders and the reference resolution of src/json_schema, and   *)
(* the pooled state scan of outlines-core/src/lib.rs.  Spec is the index   *)
(* builder and its queries (SpecFair adds the fairness of its loop),       *)
(* SpecWalk the functions of src/regex.rs called alone, SpecFsm the        *)
(* operations of src/interegular/fsm.rs called alone, SpecSchema the       *)
(* keyword encoders called alone, SpecRef (SpecRefFair) the recursion of   *)
(* to_regex through references, SpecPatterns the parser and the lowering   *)
(* called alone, SpecPool the scan of one state by the pool of workers.    *)
(*                                                                         *)
(* A character is a one-character string, a token or an alphabet symbol a  *)
(* sequence of characters; in the regex parser and the lowering, which     *)
(* compare and subtract characters, a character is its code point.         *)
(* States, transition keys and token ids are naturals (u32 in the source;  *)
(* no arithmetic is done on them).                                         *)
(***************************************************************************)
EXTENDS Naturals, Integers, Sequences, FiniteSets, TLC

\* ------------------------------------------------------------------ bounds
\* largest number of tokens of a vocabulary
MaxVocab == 2
\* token ids of the vocabulary are 1..MaxTokenId
MaxTokenId == 2
\* largest number of ids one token carries (aliased tokenizer entries)
MaxIdsPerToken == 2

\* ------------------------------------------------------------------ inputs
NUL == "NUL"

Tokens == { <<>>, <<"a">>, <<"b">>, <<"a", "b">> }

TokenIds == 1..MaxTokenId

\* an end-of-sequence id that is also a vocabulary id, and one that is not
EosIds == { MaxTokenId, 99 }

IdSets == { ids \in SUBSET TokenIds : Cardinality(ids) <= MaxIdsPerToken }

\* Vocabulary: HashMap<Token, Vec<TokenId>>, any map the public insert /
\* extend can build.
Vocabularies ==
    UNION { [toks -> IdSets] : toks \in { ts \in SUBSET Tokens : Cardinality(ts) <= MaxVocab } }

FrozenTokenSets == { {}, { <<"a", "b">> } }

\* FSMInfo::new: the five fields of a DFA handed to the index builder.
FSMInfo(initial, finals, transitions, anything, mapping) ==
    [ initial |-> initial, finals |-> finals, transitions |-> transitions,
      alphabet_anything_value |-> anything, alphabet_symbol_mapping |-> mapping ]

NoMap == [x \in {} |-> 0]

\* The DFAs of the regexes a, ab, a|b, [ab]+, ab?, (ab)*, a|b+, [^a], (a+b)* and of
\* an alphabet that holds the two-character symbol "ab" (a frozen token).
FsmInfos ==
    { FSMInfo(0, {1}, (<<0, 1>> :> 1), 0, (<<"a">> :> 1)),
      FSMInfo(0, {2}, (<<0, 1>> :> 1) @@ (<<1, 2>> :> 2), 0, (<<"a">> :> 1) @@ (<<"b">> :> 2)),
      FSMInfo(0, {1, 2}, (<<0, 1>> :> 1) @@ (<<0, 2>> :> 2), 0, (<<"a">> :> 1) @@ (<<"b">> :> 2)),
      FSMInfo(0, {1}, (<<0, 1>> :> 1) @@ (<<1, 1>> :> 1), 0, (<<"a">> :> 1) @@ (<<"b">> :> 1)),
      FSMInfo(0, {1, 2}, (<<0, 1>> :> 1) @@ (<<1, 2>> :> 2), 0, (<<"a">> :> 1) @@ (<<"b">> :> 2)),
      FSMInfo(0, {0}, (<<0, 1>> :> 1) @@ (<<1, 2>> :> 0), 0, (<<"a">> :> 1) @@ (<<"b">> :> 2)),
      FSMInfo(0, {1, 2}, (<<0, 1>> :> 1) @@ (<<0, 2>> :> 2) @@ (<<2, 2>> :> 2), 0,
              (<<"a">> :> 1) @@ (<<"b">> :> 2)),
      FSMInfo(0, {1}, (<<0, 0>> :> 1), 0, (<<"a">> :> 1)),
      FSMInfo(0, {0}, (<<0, 1>> :> 1) @@ (<<1, 1>> :> 1) @@ (<<1, 2>> :> 0), 0,
              (<<"a">> :> 1) @@ (<<"b">> :> 2)),
      FSMInfo(0, {1, 2}, (<<0, 1>> :> 1) @@ (<<0, 2>> :> 2) @@ (<<2, 1>> :> 1), 0,
              (<<"a">> :> 1) @@ (<<"a", "b">> :> 2)) }

\* every state a DFA of FsmInfos names, and one state no DFA has
States == 0..2
UnknownState == Cardinality(States)

\* ------------------------------------------------------------------ state
VARIABLES
    fsm_info,                \* Index::new argument: the DFA
    vocabulary,              \* Index::new argument: token -> ids
    eos_token_id,            \* Index::new argument
    frozen_tokens,           \* Index::new argument
    states_to_token_subsets, \* the edge map under construction / of the index
    seen,                    \* states already scanned
    next_states,             \* pending states
    pc,                      \* "build", "done" or "panicked"
    result,                  \* "none" while building, then "Ok" or "Err"
    last_call                \* the last runtime query and what it returned

vars == << fsm_info, vocabulary, eos_token_id, frozen_tokens,
           states_to_token_subsets, seen, next_states, pc, result, last_call >>

\* ------------------------------------------------------- src/regex.rs
\* alphabet_symbol_mapping.get(&symbol).unwrap_or(&alphabet_anything_value)
Lookup(alphabet_symbol_mapping, alphabet_anything_value, symbol) ==
    IF symbol \in DOMAIN alphabet_symbol_mapping
    THEN alphabet_symbol_mapping[symbol]
    ELSE alphabet_anything_value

\* TokenKeysLoop asking for three characters after the NUL instead of two.
RECURSIVE TokenKeysLoop_three(_, _, _, _, _)
TokenKeysLoop_three(alphabet_symbol_mapping, alphabet_anything_value, chars, i, keys) ==
    IF ~(i < Len(chars)) THEN keys
    ELSE LET three == chars[i + 1] = NUL /\ i # Len(chars) - 1 /\ i + 3 < Len(chars)
             symbol == IF three THEN << NUL, chars[i + 2], chars[i + 3] >>
                                ELSE << chars[i + 1] >>
             step == IF three THEN 3 ELSE 1
         IN TokenKeysLoop_three(alphabet_symbol_mapping, alphabet_anything_value, chars, i + step,
                Append(keys, Lookup(alphabet_symbol_mapping, alphabet_anything_value, symbol)))

\* The while loop of get_token_transition_keys_internal at 0-based index i
\* of chars, with the keys pushed so far.
RECURSIVE TokenKeysLoop(_, _, _, _, _)
TokenKeysLoop(alphabet_symbol_mapping, alphabet_anything_value, chars, i, keys) ==
    IF ~(i < Len(chars)) THEN keys
    ELSE LET three == chars[i + 1] = NUL /\ i # Len(chars) - 1 /\ i + 2 < Len(chars)
             symbol == IF three THEN << NUL, chars[i + 2], chars[i + 3] >>
                                ELSE << chars[i + 1] >>
             step == IF three THEN 3 ELSE 1
         IN TokenKeysLoop(alphabet_symbol_mapping, alphabet_anything_value, chars, i + step,
                Append(keys, Lookup(alphabet_symbol_mapping, alphabet_anything_value, symbol)))

get_token_transition_keys_internal(alphabet_symbol_mapping, alphabet_anything_value, token_str) ==
    TokenKeysLoop(alphabet_symbol_mapping, alphabet_anything_value, token_str, 0, <<>>)

\* One key sequence per vocabulary entry: a frozen token is looked up as one
\* symbol, any other token character by character.
get_vocabulary_transition_keys_internal(alphabet_symbol_mapping, alphabet_anything_value, vocab, frozen) ==
    [ token_str \in DOMAIN vocab |->
        IF token_str \in frozen
        THEN << Lookup(alphabet_symbol_mapping, alphabet_anything_value, token_str) >>
        ELSE get_token_transition_keys_internal(alphabet_symbol_mapping,
                                                alphabet_anything_value, token_str) ]

\* VocabularyKeysLoop that forgets the frozen tokens.
RECURSIVE VocabularyKeysLoop_unfrozen(_, _, _, _, _, _)
VocabularyKeysLoop_unfrozen(alphabet_symbol_mapping, alphabet_anything_value, vocabulary_slice, frozen, i, keys) ==
    IF ~(i < Len(vocabulary_slice)) THEN keys
    ELSE LET token_str == vocabulary_slice[i + 1][1]
             token_transition_keys ==
                 get_token_transition_keys_internal(alphabet_symbol_mapping,
                                                    alphabet_anything_value, token_str)
         IN VocabularyKeysLoop_unfrozen(alphabet_symbol_mapping, alphabet_anything_value,
                vocabulary_slice, frozen, i + 1, Append(keys, token_transition_keys))

\* The for loop of get_vocabulary_transition_keys_internal over a slice of
\* (token, ids) entries, before the entry at 0-based index i, with the key
\* sequences pushed so far.
RECURSIVE VocabularyKeysLoop(_, _, _, _, _, _)
VocabularyKeysLoop(alphabet_symbol_mapping, alphabet_anything_value, vocabulary_slice, frozen, i, keys) ==
    IF ~(i < Len(vocabulary_slice)) THEN keys
    ELSE LET token_str == vocabulary_slice[i + 1][1]
             token_transition_keys ==
                 IF token_str \in frozen
                 THEN << Lookup(alphabet_symbol_mapping, alphabet_anything_value, token_str) >>
                 ELSE get_token_transition_keys_internal(alphabet_symbol_mapping,
                                                         alphabet_anything_value, token_str)
         IN VocabularyKeysLoop(alphabet_symbol_mapping, alphabet_anything_value,
                vocabulary_slice, frozen, i + 1, Append(keys, token_transition_keys))

\* The for loop of walk_fsm_internal before the key at 0-based index i.
RECURSIVE WalkLoop(_, _, _, _, _, _, _, _)
WalkLoop(fsm_transitions, fsm_finals, token_transition_keys, full_match, i, state, accepted_states, last_final_idx) ==
    IF ~(i < Len(token_transition_keys))
    THEN IF full_match /\ last_final_idx # Len(token_transition_keys)
         THEN <<>>
         ELSE accepted_states
    ELSE IF << state, token_transition_keys[i + 1] >> \in DOMAIN fsm_transitions
         THEN LET new_state == fsm_transitions[<< state, token_transition_keys[i + 1] >>]
              IN WalkLoop(fsm_transitions, fsm_finals, token_transition_keys, full_match,
                          i + 1, new_state, Append(accepted_states, new_state),
                          IF new_state \in fsm_finals THEN i + 1 ELSE last_final_idx)
         ELSE IF ~full_match /\ last_final_idx > 0
              THEN SubSeq(accepted_states, 1, last_final_idx)
              ELSE <<>>

\* walk_fsm_internal that always walks as a partial match.
walk_fsm_internal_partial(fsm_transitions, fsm_initial, fsm_finals, token_transition_keys, start_state, full_match) ==
    WalkLoop(fsm_transitions, fsm_finals, token_transition_keys, FALSE,
             0, start_state, <<>>, 0)

\* walk_fsm_internal that always walks as a full match.
walk_fsm_internal_full(fsm_transitions, fsm_initial, fsm_finals, token_transition_keys, start_state, full_match) ==
    WalkLoop(fsm_transitions, fsm_finals, token_transition_keys, TRUE,
             0, start_state, <<>>, 0)

walk_fsm_internal(fsm_transitions, fsm_initial, fsm_finals, token_transition_keys, start_state, full_match) ==
    WalkLoop(fsm_transitions, fsm_finals, token_transition_keys, full_match,
             0, start_state, <<>>, 0)

\* The state sequence state_scan_tokens_internal computes for one token.
ScanWalk(fsm, keys, start_state) ==
    walk_fsm_internal(fsm.transitions, fsm.initial, fsm.finals, keys, start_state, FALSE)

\* state_seq.last().unwrap() of an empty state sequence: reached by a token
\* that is not skipped (its walk is as long as its keys) and has an id.
ScanPanics(fsm, vocab, vocabulary_transition_keys, start_state) ==
    \E token \in DOMAIN vocab :
        LET state_seq == ScanWalk(fsm, vocabulary_transition_keys[token], start_state)
        IN /\ ~(Len(state_seq) < Len(vocabulary_transition_keys[token]))
           /\ vocab[token] # {}
           /\ Len(state_seq) = 0

\* state_scan_tokens_internal keeping the pairs of a walk that stopped at an
\* accepting prefix (only an empty walk is skipped).
state_scan_tokens_internal_prefix(fsm, vocab, vocabulary_transition_keys, start_state) ==
    UNION { LET state_seq == ScanWalk(fsm, vocabulary_transition_keys[token], start_state)
            IN IF Len(state_seq) = 0
               THEN {}
               ELSE { << token_id, state_seq[Len(state_seq)] >> : token_id \in vocab[token] }
            : token \in DOMAIN vocab }

\* The set of (token_id, end_state) pairs of a scan that does not panic.
state_scan_tokens_internal(fsm, vocab, vocabulary_transition_keys, start_state) ==
    UNION { LET state_seq == ScanWalk(fsm, vocabulary_transition_keys[token], start_state)
            IN IF Len(state_seq) < Len(vocabulary_transition_keys[token])
               THEN {}
               ELSE { << token_id, state_seq[Len(state_seq)] >> : token_id \in vocab[token] }
            : token \in DOMAIN vocab }

\* ------------------------------------------------------- src/index.rs
None == <<>>
Some(x) == << x >>

\* The key sequences Index::new computes once, before its loop.
vocabulary_transition_keys ==
    get_vocabulary_transition_keys_internal(fsm_info.alphabet_symbol_mapping,
        fsm_info.alphabet_anything_value, vocabulary, frozen_tokens)

\* The scan of one pending state, as Index::new calls it.
state_scan_tokens(start_state) ==
    state_scan_tokens_internal(fsm_info, vocabulary, vocabulary_transition_keys, start_state)

\* The iteration orders of a HashSet of (token_id, end_state) pairs, by what
\* they leave in the inner map: for every token id the end state of the pair
\* inserted last.
InsertionOrders(token_ids_end_states) ==
    { last \in [ { p[1] : p \in token_ids_end_states } -> { p[2] : p \in token_ids_end_states } ] :
        \A token_id \in DOMAIN last : << token_id, last[token_id] >> \in token_ids_end_states }

\* entry(start_state).or_default() of the edge map
InnerMap(edges, start_state) ==
    IF start_state \in DOMAIN edges THEN edges[start_state] ELSE NoMap

\* The edge map after the body of the while loop for start_state: the pairs
\* inserted (the last pair of a token id wins), then the EOS self-loop of a
\* final state whose scan was not empty.
EdgesAfterScan(edges, start_state, token_ids_end_states, last) ==
    IF token_ids_end_states = {}
    THEN edges
    ELSE LET inserted == last @@ InnerMap(edges, start_state)
             inner_map == IF start_state \in fsm_info.finals
                          THEN (eos_token_id :> start_state) @@ inserted
                          ELSE inserted
         IN (start_state :> inner_map) @@ edges

\* PendingAfterScan without the test of seen: every end state is inserted.
PendingAfterScan_all(pending, seen_states, token_ids_end_states) ==
    pending \cup { p[2] : p \in token_ids_end_states }

\* PendingAfterScan with the test of seen inverted.
PendingAfterScan_seen(pending, seen_states, token_ids_end_states) ==
    pending \cup { p[2] : p \in { q \in token_ids_end_states : q[2] \in seen_states } }

\* The pending set after the for loop over the pairs of a scan: every end
\* state not yet in seen is inserted.
PendingAfterScan(pending, seen_states, token_ids_end_states) ==
    pending \cup { p[2] : p \in { q \in token_ids_end_states : q[2] \notin seen_states } }

\* is_valid looking at the states that hold edges instead of the targets.
is_valid_sources(edges) ==
    \E s \in DOMAIN edges : s \in fsm_info.finals

\* is_valid looking only at the edges of the initial state.
is_valid_initial(edges) ==
    /\ fsm_info.initial \in DOMAIN edges
    /\ \E token_id \in DOMAIN edges[fsm_info.initial] :
            edges[fsm_info.initial][token_id] \in fsm_info.finals

\* is_valid of Index::new: some recorded edge ends in a DFA final.
is_valid(edges) ==
    \E s \in DOMAIN edges : \E token_id \in DOMAIN edges[s] : edges[s][token_id] \in fsm_info.finals

\* next_state without the early return for eos_token_id.
next_state_eos(state, token_id) ==
    IF state \notin DOMAIN states_to_token_subsets THEN None
    ELSE IF token_id \notin DOMAIN states_to_token_subsets[state] THEN None
    ELSE Some(states_to_token_subsets[state][token_id])

\* Index::next_state
next_state(state, token_id) ==
    IF token_id = eos_token_id THEN None
    ELSE IF state \notin DOMAIN states_to_token_subsets THEN None
    ELSE IF token_id \notin DOMAIN states_to_token_subsets[state] THEN None
    ELSE Some(states_to_token_subsets[state][token_id])

\* Index::allowed_tokens
allowed_tokens(state) ==
    IF state \in DOMAIN states_to_token_subsets
    THEN Some(DOMAIN states_to_token_subsets[state])
    ELSE None

NoCall == [ op |-> "none", state |-> 0, token_id |-> 0, ret |-> None ]

Init ==
    /\ fsm_info \in FsmInfos
    /\ vocabulary \in Vocabularies
    /\ eos_token_id \in EosIds
    /\ frozen_tokens \in FrozenTokenSets
    /\ states_to_token_subsets = NoMap
    /\ seen = {}
    /\ next_states = { fsm_info.initial }
    /\ pc = "build"
    /\ result = "none"
    /\ last_call = NoCall

\* One iteration of the while loop of Index::new.
Scan ==
    /\ pc = "build"
    /\ \E start_state \in next_states :
        /\ ~ScanPanics(fsm_info, vocabulary, vocabulary_transition_keys, start_state)
        /\ LET token_ids_end_states == state_scan_tokens(start_state)
           IN /\ \E last \in InsertionOrders(token_ids_end_states) :
                    states_to_token_subsets' =
                        EdgesAfterScan(states_to_token_subsets, start_state,
                                       token_ids_end_states, last)
              /\ next_states' = PendingAfterScan(next_states \ { start_state }, seen,
                                                  token_ids_end_states)
              /\ seen' = seen \cup { start_state }
    /\ UNCHANGED << fsm_info, vocabulary, eos_token_id, frozen_tokens, pc, result, last_call >>

\* An iteration whose scan unwraps the last state of an empty walk: the
\* build aborts and returns nothing.
ScanPanic ==
    /\ pc = "build"
    /\ \E start_state \in next_states :
        /\ ScanPanics(fsm_info, vocabulary, vocabulary_transition_keys, start_state)
        /\ next_states' = next_states \ { start_state }
    /\ pc' = "panicked"
    /\ UNCHANGED << fsm_info, vocabulary, eos_token_id, frozen_tokens,
                    states_to_token_subsets, seen, result, last_call >>

\* The end of Index::new: the loop has no pending state left.
Finish ==
    /\ pc = "build"
    /\ next_states = {}
    /\ pc' = "done"
    /\ result' = IF is_valid(states_to_token_subsets) THEN "Ok" ELSE "Err"
    /\ UNCHANGED << fsm_info, vocabulary, eos_token_id, frozen_tokens,
                    states_to_token_subsets, seen, next_states, last_call >>

\* A sampler asks the built index for the successor of a state.
NextState ==
    /\ pc = "done"
    /\ result = "Ok"
    /\ \E state \in States \cup { UnknownState }, token_id \in TokenIds \cup EosIds :
        last_call' = [ op |-> "next_state", state |-> state, token_id |-> token_id,
                       ret |-> next_state(state, token_id) ]
    /\ UNCHANGED << fsm_info, vocabulary, eos_token_id, frozen_tokens,
                    states_to_token_subsets, seen, next_states, pc, result >>

\* A sampler asks the built index for the tokens allowed in a state.
AllowedTokens ==
    /\ pc = "done"
    /\ result = "Ok"
    /\ \E state \in States \cup { UnknownState } :
        last_call' = [ op |-> "allowed_tokens", state |-> state, token_id |-> 0,
                       ret |-> allowed_tokens(state) ]
    /\ UNCHANGED << fsm_info, vocabulary, eos_token_id, frozen_tokens,
                    states_to_token_subsets, seen, next_states, pc, result >>

Next == Scan \/ ScanPanic \/ Finish \/ NextState \/ AllowedTokens

Spec == Init /\ [][Next]_vars

\* Index::new is sequential code that keeps running: an iteration of its
\* loop that can be taken is taken, and so is its return.
SpecFair == Spec /\ WF_vars(Scan) /\ WF_vars(ScanPanic) /\ WF_vars(Finish)

\* ------------------------------------------------------- properties
\* The states a key sequence leads to from s by DFA transitions alone: one
\* state when every key has a transition, none when the walk runs off.
RECURSIVE Run(_, _, _)
Run(transitions, s, keys) ==
    IF keys = <<>> THEN { s }
    ELSE IF << s, Head(keys) >> \in DOMAIN transitions
         THEN Run(transitions, transitions[<< s, Head(keys) >>], Tail(keys))
         ELSE {}

\* The targets of the edges stored at the states of from.
Successors(edges, from) ==
    UNION { { edges[s][token_id] : token_id \in DOMAIN edges[s] } : s \in from \cap DOMAIN edges }

\* The states reached from the set R by zero or more stored edges.
RECURSIVE Closure(_, _)
Closure(edges, R) ==
    LET N == R \cup Successors(edges, R)
    IN IF N = R THEN R ELSE Closure(edges, N)

\* A token of the vocabulary that carries token_id and whose whole key
\* sequence leads from s to t in the DFA.
FullTokenEdge(s, token_id, t) ==
    \E token \in DOMAIN vocabulary :
        /\ token_id \in vocabulary[token]
        /\ Run(fsm_info.transitions, s, vocabulary_transition_keys[token]) = { t }

\* The build that always takes the least pending state and inserts the pairs
\* of a scan in ascending order.
RECURSIVE ReferenceRun(_, _, _)
ReferenceRun(edges, seen_states, pending) ==
    IF pending = {} THEN edges
    ELSE LET start_state == CHOOSE s \in pending : \A o \in pending : s <= o
             token_ids_end_states == state_scan_tokens(start_state)
             last == [ token_id \in { p[1] : p \in token_ids_end_states } |->
                         CHOOSE e \in { p[2] : p \in token_ids_end_states } :
                            /\ << token_id, e >> \in token_ids_end_states
                            /\ \A p \in token_ids_end_states : p[1] = token_id => p[2] <= e ]
         IN ReferenceRun(EdgesAfterScan(edges, start_state, token_ids_end_states, last),
                         seen_states \cup { start_state },
                         PendingAfterScan(pending \ { start_state }, seen_states,
                                          token_ids_end_states))

\* C1, as stated: every target of an edge of a built index has its own entry
\* in the edge map.
C1_ClosureAsStated ==
    result = "Ok" =>
        \A s \in DOMAIN states_to_token_subsets :
            \A token_id \in DOMAIN states_to_token_subsets[s] :
                states_to_token_subsets[s][token_id] \in DOMAIN states_to_token_subsets

\* C1, amended: every target of an edge of a built index has been scanned,
\* and it has its own entry in the edge map whenever some token id of the
\* vocabulary can be fully followed from it.
C1_Closure ==
    result = "Ok" =>
        \A s \in DOMAIN states_to_token_subsets :
            \A token_id \in DOMAIN states_to_token_subsets[s] :
                LET t == states_to_token_subsets[s][token_id]
                IN /\ t \in seen
                   /\ (\E id \in TokenIds, u \in States : FullTokenEdge(t, id, u))
                        => t \in DOMAIN states_to_token_subsets

\* C1 witness: a built index with an edge into a state that has no entry.
C1_Witness ==
    /\ result = "Ok"
    /\ \E s \in DOMAIN states_to_token_subsets :
         \E token_id \in DOMAIN states_to_token_subsets[s] :
            states_to_token_subsets[s][token_id] \notin DOMAIN states_to_token_subsets
    /\ \E s \in DOMAIN states_to_token_subsets :
         \E token_id \in DOMAIN states_to_token_subsets[s] :
            /\ states_to_token_subsets[s][token_id] # s
            /\ states_to_token_subsets[s][token_id] \in DOMAIN states_to_token_subsets

\* C2: in a built index every DFA final state the builder has scanned holds
\* the self-loop (s, eos_token_id) -> s, whether or not a token can be
\* followed from it.
C2_EosOnScannedFinals ==
    result = "Ok" => \A s \in seen \cap fsm_info.finals :
        /\ s \in DOMAIN states_to_token_subsets
        /\ eos_token_id \in DOMAIN states_to_token_subsets[s]
        /\ states_to_token_subsets[s][eos_token_id] = s

\* C3: in a built index every final state of the edge map holds the EOS
\* self-loop and no other state of the edge map has an edge labelled
\* eos_token_id.
C3_EosSelfLoop ==
    result = "Ok" =>
        \A s \in DOMAIN states_to_token_subsets :
            IF s \in fsm_info.finals
            THEN /\ eos_token_id \in DOMAIN states_to_token_subsets[s]
                 /\ states_to_token_subsets[s][eos_token_id] = s
            ELSE eos_token_id \notin DOMAIN states_to_token_subsets[s]

\* C4: Index::new returns Ok exactly when some recorded edge ends in a DFA
\* final state and Err otherwise; an empty vocabulary always gives Err.
C4_ValidIffFinalTarget ==
    pc = "done" =>
        /\ result \in { "Ok", "Err" }
        /\ result = "Ok" <=> (Successors(states_to_token_subsets, States) \cap fsm_info.finals # {})
        /\ (DOMAIN vocabulary = {}) => result = "Err"

\* C4 witness: a build that recorded edges, none of them into a final state,
\* and returned Err.
C4_Witness ==
    /\ pc = "done"
    /\ result = "Err"
    /\ DOMAIN states_to_token_subsets # {}

C6_EdgeSoundness ==
    \A s \in DOMAIN states_to_token_subsets :
        \A token_id \in DOMAIN states_to_token_subsets[s] :
            LET t == states_to_token_subsets[s][token_id]
            IN \/ token_id = eos_token_id /\ t = s /\ s \in fsm_info.finals
               \/ FullTokenEdge(s, token_id, t)

\* C6 witness: a scanned state from which a token runs off the DFA after a
\* proper prefix that ends in a final state, in an edge map that has edges.
C6_Witness ==
    /\ pc = "done"
    /\ DOMAIN states_to_token_subsets # {}
    /\ \E s \in seen, token \in DOMAIN vocabulary :
        LET keys == vocabulary_transition_keys[token]
        IN /\ Len(keys) = 2
           /\ vocabulary[token] # {}
           /\ Run(fsm_info.transitions, s, keys) = {}
           /\ Run(fsm_info.transitions, s, << keys[1] >>) \cap fsm_info.finals # {}
           /\ \A token_id \in vocabulary[token] :
                s \in DOMAIN states_to_token_subsets =>
                    token_id \notin DOMAIN states_to_token_subsets[s]

\* C7: for every scanned state s and every token whose key sequence can be
\* followed from s, every id of the token labels an edge from s to the last
\* state of the walk.
C7_EdgeCompleteness ==
    \A s \in seen, token \in DOMAIN vocabulary :
        \A t \in Run(fsm_info.transitions, s, vocabulary_transition_keys[token]) :
            \A token_id \in vocabulary[token] :
                /\ s \in DOMAIN states_to_token_subsets
                /\ token_id \in DOMAIN states_to_token_subsets[s]
                /\ states_to_token_subsets[s][token_id] = t

\* C8: every build of the same inputs ends with the edge map of the
\* reference build, whichever pending state it picks and in whichever order
\* it inserts the pairs of a scan.
C8_Determinism ==
    pc = "done" =>
        states_to_token_subsets = ReferenceRun(NoMap, {}, { fsm_info.initial })

\* C9: every state of the edge map of a built index is reached from the
\* initial state by edges of the edge map.
C9_OnlyReachable ==
    result = "Ok" =>
        DOMAIN states_to_token_subsets
            \subseteq Closure(states_to_token_subsets, { fsm_info.initial })

\* C10: next_state gives no successor for eos_token_id, the stored edge for
\* any other token id that has one, and no successor otherwise.
C10_NextState ==
    last_call.op = "next_state" =>
        IF last_call.token_id = eos_token_id
        THEN last_call.ret = None
        ELSE IF /\ last_call.state \in DOMAIN states_to_token_subsets
                /\ last_call.token_id \in DOMAIN states_to_token_subsets[last_call.state]
             THEN last_call.ret = Some(states_to_token_subsets[last_call.state][last_call.token_id])
             ELSE last_call.ret = None

\* C10 witness: next_state asked for eos_token_id in a final state that holds
\* the EOS self-loop.
C10_Witness ==
    /\ last_call.op = "next_state"
    /\ last_call.token_id = eos_token_id
    /\ last_call.state \in fsm_info.finals
    /\ last_call.state \in DOMAIN states_to_token_subsets
    /\ eos_token_id \in DOMAIN states_to_token_subsets[last_call.state]
    /\ last_call.ret = None

\* The states reached from the states of R by one token that has an id and
\* whose whole key sequence can be followed.
TokenSuccessors(R) ==
    { t \in States : \E s \in R, token_id \in TokenIds : FullTokenEdge(s, token_id, t) }

\* The states reached from the set R by zero or more fully consumed tokens.
RECURSIVE TokenClosure(_)
TokenClosure(R) ==
    LET N == R \cup TokenSuccessors(R)
    IN IF N = R THEN R ELSE TokenClosure(N)

\* C35: when Index::new returns, no state is pending and every DFA state
\* reached from the initial state by a sequence of fully consumed vocabulary
\* tokens has been scanned.
C35_ExplorationComplete ==
    pc = "done" =>
        /\ next_states = {}
        /\ TokenClosure({ fsm_info.initial }) \subseteq seen

\* C35 witness: a finished build that scanned a state two tokens away from
\* the initial state.
C35_Witness ==
    /\ pc = "done"
    /\ \E s \in seen :
        /\ s \notin TokenSuccessors({ fsm_info.initial }) \cup { fsm_info.initial }
        /\ s \in TokenClosure({ fsm_info.initial })

\* C36: the worklist loop of Index::new terminates, for DFAs with self-loops
\* and cycles too: the build leaves its loop with no state pending.
C36_Terminates ==
    <>(pc # "build" /\ next_states = {})

\* C36 witness: a build has left its loop after scanning a state that has a
\* token edge to itself and a state on a cycle of two states.
C36_Witness ==
    /\ pc = "done"
    /\ next_states = {}
    /\ \E s \in seen, token_id \in TokenIds : FullTokenEdge(s, token_id, s)
    /\ \E s, t \in seen : \E i, j \in TokenIds :
        /\ s # t
        /\ FullTokenEdge(s, i, t)
        /\ FullTokenEdge(t, j, s)

\* C37: no state is scanned twice: at the start of every iteration of the
\* loop of Index::new no pending state has been scanned before.
C37_PendingSeenDisjoint ==
    pc = "build" => next_states \cap seen = {}

\* C38: a vocabulary token with an empty key sequence does not make the
\* build fail: the scan of a state skips it and the build goes on.
C38_EmptyTokenHandled ==
    (\E token \in DOMAIN vocabulary : vocabulary_transition_keys[token] = <<>>)
        => pc # "panicked"

\* ------------------------------------- the functions of src/regex.rs alone
\* longest key sequence handed to walk_fsm_internal
MaxKeys == 3
\* longest token handed to get_token_transition_keys_internal
MaxTokenLen == 4

\* every sequence over S of at most n elements
SeqsUpTo(S, n) == UNION { [1..k -> S] : k \in 0..n }

\* the transition keys of the DFAs: the anything-else value and two symbols
Keys == 0..2
KeySeqs == SeqsUpTo(Keys, MaxKeys)
TokenStrs == SeqsUpTo({ "a", "b", NUL }, MaxTokenLen)

\* The DFAs of FsmInfos and one whose alphabet holds symbols that start
\* with NUL: a three-character symbol and NUL alone.
KeyFsmInfos ==
    FsmInfos \cup
    { FSMInfo(0, {2}, (<<0, 1>> :> 1) @@ (<<1, 2>> :> 2), 0,
              (<<NUL, "a", "b">> :> 1) @@ (<<NUL>> :> 2) @@ (<<"a">> :> 2)) }

\* slices of (token, token ids) entries; a slice may repeat a token
VocabularyEntries == { << token_str, ids >> : token_str \in Tokens, ids \in IdSets }
VocabularySlices == SeqsUpTo(VocabularyEntries, MaxVocab)

InitWalk ==
    /\ fsm_info \in KeyFsmInfos
    /\ vocabulary = <<>>
    /\ eos_token_id = 0
    /\ frozen_tokens = {}
    /\ states_to_token_subsets = NoMap
    /\ seen = {}
    /\ next_states = {}
    /\ pc = "call"
    /\ result = "none"
    /\ last_call = NoCall

\* A caller walks a key sequence through the DFA.
WalkFsm ==
    /\ pc = "call"
    /\ \E token_transition_keys \in KeySeqs, start_state \in States, full_match \in BOOLEAN :
        last_call' = [ op |-> "walk_fsm", keys |-> token_transition_keys,
                       start_state |-> start_state, full_match |-> full_match,
                       ret |-> walk_fsm_internal(fsm_info.transitions, fsm_info.initial,
                                                 fsm_info.finals, token_transition_keys,
                                                 start_state, full_match) ]
    /\ pc' = "returned"
    /\ UNCHANGED << fsm_info, vocabulary, eos_token_id, frozen_tokens,
                    states_to_token_subsets, seen, next_states, result >>

\* A caller asks for the transition keys of one token.
TokenKeys ==
    /\ pc = "call"
    /\ \E token_str \in TokenStrs :
        last_call' = [ op |-> "get_token_transition_keys", token_str |-> token_str,
                       ret |-> get_token_transition_keys_internal(
                                   fsm_info.alphabet_symbol_mapping,
                                   fsm_info.alphabet_anything_value, token_str) ]
    /\ pc' = "returned"
    /\ UNCHANGED << fsm_info, vocabulary, eos_token_id, frozen_tokens,
                    states_to_token_subsets, seen, next_states, result >>

\* A caller asks for the transition keys of a slice of vocabulary entries.
VocabularyKeys ==
    /\ pc = "call"
    /\ \E vocabulary_slice \in VocabularySlices, frozen \in FrozenTokenSets :
        /\ vocabulary' = vocabulary_slice
        /\ frozen_tokens' = frozen
        /\ last_call' = [ op |-> "get_vocabulary_transition_keys",
                          ret |-> VocabularyKeysLoop(fsm_info.alphabet_symbol_mapping,
                                      fsm_info.alphabet_anything_value,
                                      vocabulary_slice, frozen, 0, <<>>) ]
    /\ pc' = "returned"
    /\ UNCHANGED << fsm_info, eos_token_id, states_to_token_subsets, seen, next_states,
                    result >>

NextWalk == WalkFsm \/ TokenKeys \/ VocabularyKeys

SpecWalk == InitWalk /\ [][NextWalk]_vars

\* The states visited from s along keys, up to the first key that has no
\* transition.
RECURSIVE Visited(_, _, _)
Visited(transitions, s, keys) ==
    IF keys = <<>> \/ << s, Head(keys) >> \notin DOMAIN transitions THEN <<>>
    ELSE << transitions[<< s, Head(keys) >>] >>
         \o Visited(transitions, transitions[<< s, Head(keys) >>], Tail(keys))

\* the largest index of v that holds a final state, 0 when none does
LastFinal(v, finals) ==
    LET F == { j \in 1..Len(v) : v[j] \in finals }
    IN IF F = {} THEN 0 ELSE CHOOSE j \in F : \A k \in F : k <= j

\* C11: with full_match = true the walk returns the complete trajectory when
\* every key has a transition and the state after the last key is final, and
\* the empty trajectory in every other case.
C11_FullMatch ==
    (last_call.op = "walk_fsm" /\ last_call.full_match) =>
        LET v == Visited(fsm_info.transitions, last_call.start_state, last_call.keys)
            complete == /\ Len(v) = Len(last_call.keys)
                        /\ (v # <<>> => v[Len(v)] \in fsm_info.finals)
        IN last_call.ret = IF complete THEN v ELSE <<>>

\* C11 witness: a full-match walk of two keys or more that returns its whole
\* trajectory.
C11_Witness ==
    /\ last_call.op = "walk_fsm"
    /\ last_call.full_match
    /\ Len(last_call.keys) >= 2
    /\ Len(last_call.ret) = Len(last_call.keys)

\* C12: with full_match = false a walk that meets a key without transition
\* returns the visited states up to the last final one (none when no visited
\* state was final); a walk that never misses a transition returns every
\* visited state, final or not.
C12_PartialMatch ==
    (last_call.op = "walk_fsm" /\ ~last_call.full_match) =>
        LET v == Visited(fsm_info.transitions, last_call.start_state, last_call.keys)
        IN last_call.ret = IF Len(v) = Len(last_call.keys) THEN v
                           ELSE SubSeq(v, 1, LastFinal(v, fsm_info.finals))

\* C12 witness: a partial walk that stops on a missing transition after a
\* non-final state and is cut back to an earlier final state.
C12_Witness ==
    /\ last_call.op = "walk_fsm"
    /\ ~last_call.full_match
    /\ LET v == Visited(fsm_info.transitions, last_call.start_state, last_call.keys)
       IN /\ Len(v) < Len(last_call.keys)
          /\ 0 < Len(last_call.ret)
          /\ Len(last_call.ret) < Len(v)

\* The keys of a token read from the front: a NUL with two characters or
\* more behind it is one three-character symbol, any other character is a
\* symbol of its own.
RECURSIVE SymbolsOf(_)
SymbolsOf(chars) ==
    IF chars = <<>> THEN <<>>
    ELSE IF Head(chars) = NUL /\ Len(chars) >= 3
         THEN << SubSeq(chars, 1, 3) >> \o SymbolsOf(SubSeq(chars, 4, Len(chars)))
         ELSE << << Head(chars) >> >> \o SymbolsOf(Tail(chars))

\* the lookups of a sequence of symbols in the alphabet of fsm_info
KeysOfSymbols(symbols) ==
    [ j \in 1..Len(symbols) |->
        IF symbols[j] \in DOMAIN fsm_info.alphabet_symbol_mapping
        THEN fsm_info.alphabet_symbol_mapping[symbols[j]]
        ELSE fsm_info.alphabet_anything_value ]

\* C14: the keys of a non-frozen token are the lookups of its characters one
\* by one (anything-else for an unknown one), but a NUL followed by two
\* characters or more is looked up with them as one three-character symbol;
\* a NUL followed by fewer is looked up alone.
C14_TokenKeys ==
    last_call.op = "get_token_transition_keys" =>
        last_call.ret = KeysOfSymbols(SymbolsOf(last_call.token_str))

\* C14 witness: a token that ends with NUL and exactly two characters, the
\* three looked up as one symbol the alphabet records.
C14_Witness ==
    /\ last_call.op = "get_token_transition_keys"
    /\ LET n == Len(last_call.token_str)
       IN /\ n >= 4
          /\ last_call.token_str[n - 2] = NUL
          /\ SubSeq(last_call.token_str, n - 2, n) \in DOMAIN fsm_info.alphabet_symbol_mapping
          /\ Len(last_call.ret) = n - 2
          /\ last_call.ret[n - 2] # fsm_info.alphabet_anything_value

\* C15: the key sequence of a frozen token has one element, the lookup of
\* the whole token (anything-else when the alphabet does not record it), and
\* the i-th key sequence is the one of the i-th vocabulary entry.
C15_FrozenAndAligned ==
    last_call.op = "get_vocabulary_transition_keys" =>
        /\ Len(last_call.ret) = Len(vocabulary)
        /\ \A i \in 1..Len(vocabulary) :
            LET token_str == vocabulary[i][1]
            IN IF token_str \in frozen_tokens
               THEN /\ Len(last_call.ret[i]) = 1
                    /\ last_call.ret[i][1] =
                        IF token_str \in DOMAIN fsm_info.alphabet_symbol_mapping
                        THEN fsm_info.alphabet_symbol_mapping[token_str]
                        ELSE fsm_info.alphabet_anything_value
               ELSE last_call.ret[i] = KeysOfSymbols(SymbolsOf(token_str))

\* C15 witness: a slice whose second entry is a frozen token the alphabet
\* records and whose first entry is another token.
C15_Witness ==
    /\ last_call.op = "get_vocabulary_transition_keys"
    /\ Len(vocabulary) = 2
    /\ vocabulary[2][1] \in frozen_tokens
    /\ vocabulary[2][1] \in DOMAIN fsm_info.alphabet_symbol_mapping
    /\ vocabulary[1][1] \notin frozen_tokens
    /\ vocabulary[1][1] # <<>>
    /\ last_call.ret[2] = << fsm_info.alphabet_symbol_mapping[vocabulary[2][1]] >>

\* ------------------------------------------- src/interegular/fsm.rs
\* A TransitionKey::Symbol(i) is the natural i, TransitionKey::AnythingElse
\* the integer below every symbol key.  An alphabet is its symbol_mapping;
\* an Fsm is a record of its five fields, map a function from states to
\* functions from keys to states.

\* longest input handed to Fsm::accepts
MaxLen == 4
\* largest number of alphabets or FSMs handed to a combinator
MaxFsms == 2
\* largest multiplier handed to Fsm::times
MaxTimes == 2
\* longest string the iterator of Fsm::strings extends
MaxStringLen == 2

AnythingElse == 0 - 1

\* Alphabet::get
Alphabet_get(alphabet, item) ==
    IF item \in DOMAIN alphabet THEN alphabet[item] ELSE AnythingElse

\* the keys of Alphabet::by_transition
by_transition_keys(alphabet) == { alphabet[symbol] : symbol \in DOMAIN alphabet }

\* Fsm::new
Fsm_new(alphabet, states, initial, finals, map) ==
    [ alphabet |-> alphabet, states |-> states, initial |-> initial,
      finals |-> finals, map |-> map ]

\* AcceptsLoop that answers true at the end of the input whatever the state.
RECURSIVE AcceptsLoop_nofinal(_, _, _, _)
AcceptsLoop_nofinal(fsm, input, i, state) ==
    IF ~(i < Len(input)) THEN TRUE
    ELSE LET transition == Alphabet_get(fsm.alphabet, input[i + 1])
         IN IF state \notin DOMAIN fsm.map THEN FALSE
            ELSE IF transition \notin DOMAIN fsm.map[state] THEN FALSE
            ELSE AcceptsLoop_nofinal(fsm, input, i + 1, fsm.map[state][transition])

\* The for loop of Fsm::accepts before the symbol at 0-based index i.
RECURSIVE AcceptsLoop(_, _, _, _)
AcceptsLoop(fsm, input, i, state) ==
    IF ~(i < Len(input)) THEN state \in fsm.finals
    ELSE LET transition == Alphabet_get(fsm.alphabet, input[i + 1])
         IN IF state \notin DOMAIN fsm.map THEN FALSE
            ELSE IF transition \notin DOMAIN fsm.map[state] THEN FALSE
            ELSE AcceptsLoop(fsm, input, i + 1, fsm.map[state][transition])

\* Fsm::accepts
accepts(fsm, input) == AcceptsLoop(fsm, input, 0, fsm.initial)

\* the key vectors of Alphabet::union: for each symbol of some alphabet its
\* key in every alphabet
symbol_to_keys(alphabets) ==
    [ symbol \in UNION { DOMAIN alphabets[i] : i \in 1..Len(alphabets) } |->
        [ i \in 1..Len(alphabets) |-> Alphabet_get(alphabets[i], symbol) ] ]

\* The numberings keys_to_key can end with: the key vectors are numbered
\* from 0 in the iteration order of a HashMap.
KeysToKeys(alphabets) ==
    LET vectors == { symbol_to_keys(alphabets)[symbol] :
                        symbol \in DOMAIN symbol_to_keys(alphabets) }
    IN { f \in [ vectors -> 0..(Cardinality(vectors) - 1) ] :
            \A k1, k2 \in vectors : f[k1] = f[k2] => k1 = k2 }

\* Alphabet::union that groups the symbols by their key in the first
\* alphabet alone.
Alphabet_union_first(alphabets, keys_to_key) ==
    [ alphabet |-> [ symbol \in DOMAIN symbol_to_keys(alphabets) |->
                        keys_to_key[CHOOSE keys \in DOMAIN keys_to_key :
                                        keys[1] = Alphabet_get(alphabets[1], symbol)] ],
      new_to_old_mappings |->
        [ i \in 1..Len(alphabets) |->
            [ new_key \in { keys_to_key[keys] : keys \in DOMAIN keys_to_key } |->
                (CHOOSE keys \in DOMAIN keys_to_key : keys_to_key[keys] = new_key)[i] ] ] ]

\* Alphabet::union with keys_to_key as the HashMap iteration left it.
Alphabet_union(alphabets, keys_to_key) ==
    [ alphabet |-> [ symbol \in DOMAIN symbol_to_keys(alphabets) |->
                        keys_to_key[symbol_to_keys(alphabets)[symbol]] ],
      new_to_old_mappings |->
        [ i \in 1..Len(alphabets) |->
            [ new_key \in { keys_to_key[keys] : keys \in DOMAIN keys_to_key } |->
                (CHOOSE keys \in DOMAIN keys_to_key : keys_to_key[keys] = new_key)[i] ] ] ]

\* The while loop of connect_all: _current_i advances over the FSMs whose
\* final state current_substate is, and each round inserts the initial state
\* of the next FSM paired with current_i, the index connect_all was given.
RECURSIVE ConnectLoop(_, _, _, _, _)
ConnectLoop(fsms, current_i, _current_i, current_substate, connected) ==
    IF _current_i < Len(fsms) - 1 /\ current_substate \in fsms[_current_i + 1].finals
    THEN ConnectLoop(fsms, current_i, _current_i + 1, fsms[_current_i + 2].initial,
                     connected \cup { << current_i, fsms[_current_i + 2].initial >> })
    ELSE connected

\* the closure connect_all of Fsm::concatenate
connect_all(fsms, i, substate) ==
    ConnectLoop(fsms, i, i, substate, { << i, substate >> })

\* the closure final_fn of Fsm::concatenate
concatenate_final_fn(fsms, state) ==
    \E p \in state : p[1] = Len(fsms) - 1 /\ p[2] \in fsms[Len(fsms)].finals

\* the closure follow of Fsm::concatenate
concatenate_follow(fsms, new_to_old, current, transition) ==
    LET step(p) ==
            LET fsm == fsms[p[1] + 1]
                key == new_to_old[p[1] + 1][transition]
            IN IF p[2] \in DOMAIN fsm.map /\ key \in DOMAIN fsm.map[p[2]]
               THEN connect_all(fsms, p[1], fsm.map[p[2]][key])
               ELSE {}
        next == UNION { step(p) : p \in current }
    IN IF next = {} THEN None ELSE Some(next)

\* the closure follow of Fsm::star
star_follow(self, state, transition) ==
    LET direct == { self.map[substate][transition] :
                        substate \in { q \in state : /\ q \in DOMAIN self.map
                                                     /\ transition \in DOMAIN self.map[q] } }
        again == IF /\ \E substate \in state : substate \in self.finals
                    /\ self.initial \in DOMAIN self.map
                    /\ transition \in DOMAIN self.map[self.initial]
                 THEN { self.map[self.initial][transition] }
                 ELSE {}
        next == direct \cup again
    IN IF next = {} THEN None ELSE Some(next)

\* the closure final_fn of Fsm::star
star_final_fn(self, state) == \E substate \in state : substate \in self.finals

\* the closure final_fn of Fsm::times
times_final_fn(self, multiplier, state) ==
    \E p \in state : p[1] = self.initial /\ (p[1] \in self.finals \/ p[2] = multiplier)

\* the follow of Fsm::times that starts no new iteration.
times_follow_stay(self, multiplier, current, transition) ==
    LET live == { p \in current : /\ p[2] < multiplier
                                  /\ p[1] \in DOMAIN self.map
                                  /\ transition \in DOMAIN self.map[p[1]] }
        next == { << self.map[p[1]][transition], p[2] >> : p \in live }
    IN IF next = {} THEN None ELSE Some(next)

\* the closure follow of Fsm::times
times_follow(self, multiplier, current, transition) ==
    LET live == { p \in current : /\ p[2] < multiplier
                                  /\ p[1] \in DOMAIN self.map
                                  /\ transition \in DOMAIN self.map[p[1]] }
        next == { << self.map[p[1]][transition], p[2] >> : p \in live }
                \cup { << self.initial, p[2] + 1 >> :
                        p \in { q \in live : self.map[q[1]][transition] \in self.finals } }
    IN IF next = {} THEN None ELSE Some(next)

\* the closure follow of Fsm::everythingbut
everythingbut_follow(self, current, transition) ==
    LET live == { p \in current : /\ p[1] = self.initial
                                  /\ p[1] \in DOMAIN self.map
                                  /\ transition \in DOMAIN self.map[p[1]] }
        next == { << self.map[p[1]][transition], p[2] >> : p \in live }
    IN IF next = {} THEN None ELSE Some(next)

\* the closure final_fn of Fsm::everythingbut
everythingbut_final_fn(self, state) ==
    ~ \E p \in state : p[1] = self.initial /\ p[1] \in self.finals

\* the closures handed to parallel by union, intersection,
\* symmetric_difference and difference, over the vector of acceptances
parallel_test(test, accepted) ==
    CASE test = "union" -> \E i \in DOMAIN accepted : accepted[i]
      [] test = "intersection" -> \A i \in DOMAIN accepted : accepted[i]
      [] test = "symmetric_difference" ->
            Cardinality({ i \in DOMAIN accepted : accepted[i] }) % 2 = 1
      [] test = "difference" ->
            accepted[1] /\ ~ \E i \in DOMAIN accepted \ { 1 } : accepted[i]

\* the closure follow of Fsm::parallel; a composite state holds at most one
\* pair for each FSM, the one find returns
parallel_follow(fsms, new_to_old, current, transition) ==
    LET step(i) ==
            IF transition \notin DOMAIN new_to_old[i + 1] THEN {}
            ELSE LET old_transition == new_to_old[i + 1][transition]
                     fsm == fsms[i + 1]
                 IN { << i, fsm.map[p[2]][old_transition] >> :
                        p \in { q \in current : /\ q[1] = i
                                                /\ q[2] \in DOMAIN fsm.map
                                                /\ old_transition \in DOMAIN fsm.map[q[2]] } }
        next == UNION { step(i) : i \in 0..(Len(fsms) - 1) }
    IN IF next = {} THEN None ELSE Some(next)

\* the final_fn of Fsm::parallel that looks at the first FSM alone.
parallel_final_fn_first(fsms, test, state) ==
    \E p \in state : p[1] = 0 /\ p[2] \in fsms[1].finals

\* the closure final_fn of Fsm::parallel
parallel_final_fn(fsms, test, state) ==
    parallel_test(test, [ i \in 1..Len(fsms) |->
                            \E p \in state : p[1] = i - 1 /\ p[2] \in fsms[i].finals ])

\* the reverse_map of Fsm::reversed: the states that a transition leads
\* from, by (state led to, transition)
reverse_map(self) ==
    [ target \in UNION { { << self.map[state][transition], transition >> :
                            transition \in DOMAIN self.map[state] } :
                         state \in DOMAIN self.map } |->
        { state \in DOMAIN self.map :
            /\ target[2] \in DOMAIN self.map[state]
            /\ self.map[state][target[2]] = target[1] } ]

\* the closure follow of Fsm::reversed
reversed_follow(self, current, transition) ==
    LET next == UNION { reverse_map(self)[<< state, transition >>] :
                            state \in { q \in current :
                                        << q, transition >> \in DOMAIN reverse_map(self) } }
    IN IF next = {} THEN None ELSE Some(next)

\* the final_fn of Fsm::reversed that accepts every composite state.
reversed_final_fn_any(self, state) == state # {}

\* the closure final_fn of Fsm::reversed
reversed_final_fn(self, state) == self.initial \in state

\* The closures handed to crawl, named by a record: the operation and what
\* its closures capture.
final_fn(op, state) ==
    CASE op.name = "concatenate" -> concatenate_final_fn(op.fsms, state)
      [] op.name = "star" -> star_final_fn(op.self, state)
      [] op.name = "times" -> times_final_fn(op.self, op.multiplier, state)
      [] op.name = "everythingbut" -> everythingbut_final_fn(op.self, state)
      [] op.name = "parallel" -> parallel_final_fn(op.fsms, op.test, state)
      [] op.name = "reversed" -> reversed_final_fn(op.self, state)

follow(op, state, transition) ==
    CASE op.name = "concatenate" ->
            concatenate_follow(op.fsms, op.new_to_old, state, transition)
      [] op.name = "star" -> star_follow(op.self, state, transition)
      [] op.name = "times" -> times_follow(op.self, op.multiplier, state, transition)
      [] op.name = "everythingbut" -> everythingbut_follow(op.self, state, transition)
      [] op.name = "parallel" -> parallel_follow(op.fsms, op.new_to_old, state, transition)
      [] op.name = "reversed" -> reversed_follow(op.self, state, transition)

\* The orders in which the keys of by_transition can be iterated.
CrawlOrders(alphabet) ==
    { order \in [ 1..Cardinality(by_transition_keys(alphabet)) -> by_transition_keys(alphabet) ] :
        \A j, k \in DOMAIN order : order[j] = order[k] => j = k }

\* The for loop of crawl over the transitions, before the t-th of order,
\* with the composite states numbered so far and the row of state i.
RECURSIVE CrawlTransitions(_, _, _, _, _, _)
CrawlTransitions(op, order, state, states, row, t) ==
    IF ~(t < Len(order)) THEN [ states |-> states, row |-> row ]
    ELSE LET transition == order[t + 1]
             next == follow(op, state, transition)
         IN IF next = None
            THEN CrawlTransitions(op, order, state, states, row, t + 1)
            ELSE LET position == { index \in 1..Len(states) : states[index] = next[1] }
                     j == IF position # {}
                          THEN (CHOOSE index \in position : \A k \in position : index <= k) - 1
                          ELSE Len(states)
                     pushed == IF position # {} THEN states ELSE Append(states, next[1])
                 IN CrawlTransitions(op, order, state, pushed,
                                     (transition :> j) @@ row, t + 1)

\* The while loop of crawl before the composite state of index i; at the
\* end, the Fsm crawl returns and the composite states it numbered.
RECURSIVE CrawlLoop(_, _, _, _, _, _, _)
CrawlLoop(alphabet, op, order, states, finals, map, i) ==
    IF ~(i < Len(states))
    THEN [ fsm |-> Fsm_new(alphabet, 0..(Len(states) - 1), 0, finals, map),
           states |-> states ]
    ELSE LET state == states[i + 1]
             r == CrawlTransitions(op, order, state, states, NoMap, 0)
         IN CrawlLoop(alphabet, op, order, r.states,
                      IF final_fn(op, state) THEN finals \cup { i } ELSE finals,
                      (i :> r.row) @@ map, i + 1)

crawl_from_one(alphabet, initial, op, order) ==
    LET crawled == CrawlLoop(alphabet, op, order, << initial >>, {}, NoMap, 0)
    IN  [ crawled EXCEPT !.fsm.states = 1..Len(crawled.states) ]

crawl(alphabet, initial, op, order) ==
    CrawlLoop(alphabet, op, order, << initial >>, {}, NoMap, 0)

\* Fsm::concatenate
concatenate(fsms, keys_to_key, order) ==
    LET alphabets == Alphabet_union([ i \in 1..Len(fsms) |-> fsms[i].alphabet ], keys_to_key)
    IN crawl(alphabets.alphabet, connect_all(fsms, 0, fsms[1].initial),
             [ name |-> "concatenate", fsms |-> fsms,
               new_to_old |-> alphabets.new_to_old_mappings ], order)

\* Fsm::star
star(self, order) ==
    LET crawled == crawl(self.alphabet, { self.initial }, [ name |-> "star", self |-> self ], order)
    IN [ crawled EXCEPT !.fsm.finals = @ \cup { crawled.fsm.initial } ]

\* Fsm::times
times(self, multiplier, order) ==
    crawl(self.alphabet, { << self.initial, 0 >> },
          [ name |-> "times", self |-> self, multiplier |-> multiplier ], order)

\* Fsm::everythingbut
everythingbut(self, order) ==
    crawl(self.alphabet, { << self.initial, 0 >> },
          [ name |-> "everythingbut", self |-> self ], order)

\* Fsm::parallel with the test of union, intersection, symmetric_difference
\* or difference
parallel(fsms, test, keys_to_key, order) ==
    LET alphabets == Alphabet_union([ i \in 1..Len(fsms) |-> fsms[i].alphabet ], keys_to_key)
    IN crawl(alphabets.alphabet, { << i - 1, fsms[i].initial >> : i \in 1..Len(fsms) },
             [ name |-> "parallel", fsms |-> fsms, test |-> test,
               new_to_old |-> alphabets.new_to_old_mappings ], order)

\* Fsm::reversed
reversed(self, order) ==
    crawl(self.alphabet, self.finals, [ name |-> "reversed", self |-> self ], order)

\* Fsm::reduce, with the key orders of its two crawls
reduce(self, first_order, second_order) ==
    reversed(reversed(self, first_order).fsm, second_order)

\* The states reached from the states of S by any number of transitions.
RECURSIVE reachable(_, _)
reachable(self, S) ==
    LET more == S \cup UNION { { self.map[state][transition] :
                                    transition \in DOMAIN self.map[state] } :
                               state \in S \cap DOMAIN self.map }
    IN IF more = S THEN S ELSE reachable(self, more)

\* Fsm::is_live: some final state is reached from state
is_live(self, state) == reachable(self, { state }) \cap self.finals # {}

\* the live_states of Fsm::strings
live_states(self) == { state \in self.states : is_live(self, state) }

\* What Fsm::strings holds before its iterator is first asked: the queue
\* strings of (string, state) pairs and the vector result.
strings_start(self) ==
    IF self.initial \in live_states(self)
    THEN [ strings |-> << << <<>>, self.initial >> >>,
           result |-> IF self.initial \in self.finals THEN << <<>> >> ELSE <<>> ]
    ELSE [ strings |-> <<>>, result |-> <<>> ]

\* The (symbol, next state) pairs one round of the while loop of
\* Fsm::strings pushes for the state it popped.
strings_steps(self, current_state) ==
    IF current_state \notin DOMAIN self.map THEN {}
    ELSE UNION { { << symbol, self.map[current_state][transition] >> :
                    symbol \in { x \in DOMAIN self.alphabet : self.alphabet[x] = transition } } :
                 transition \in { t \in DOMAIN self.map[current_state] :
                                    self.map[current_state][t] \in live_states(self) } }

\* The pushes of one round in the order pushes: new_string goes to result
\* when next_state is final, and to the queue in every case.
RECURSIVE strings_push(_, _, _, _, _)
strings_push(self, current_string, pushes, queue, found) ==
    IF pushes = <<>> THEN [ strings |-> queue, result |-> found ]
    ELSE LET new_string == Append(current_string, Head(pushes)[1])
             target == Head(pushes)[2]
         IN strings_push(self, current_string, Tail(pushes),
                         Append(queue, << new_string, target >>),
                         IF target \in self.finals THEN Append(found, new_string)
                                                   ELSE found)

\* ------------------------------------------------ the FSM operations alone
Symbols == { "a", "b", "c" }
Inputs == SeqsUpTo(Symbols, MaxLen)

\* The alphabet of create_simple_fsm.
SimpleAlphabet == ("a" :> 0) @@ ("b" :> 1)

\* The FSMs of a, b (test_concatenate), ab* (create_simple_fsm), a(ba)*,
\* a? (with an empty row for state 1, as in test_times), a over the
\* alphabet {a}, [ab]+ over an alphabet that gives a and b one key, and
\* (a|b)a* with two final states that accept the same continuations.
Fsms ==
    { Fsm_new(SimpleAlphabet, {0, 1}, 0, {1}, (0 :> (0 :> 1))),
      Fsm_new(SimpleAlphabet, {0, 1}, 0, {1}, (0 :> (1 :> 1))),
      Fsm_new(SimpleAlphabet, {0, 1}, 0, {1}, (0 :> (0 :> 1)) @@ (1 :> (1 :> 1))),
      Fsm_new(SimpleAlphabet, {0, 1}, 0, {1}, (0 :> (0 :> 1)) @@ (1 :> (1 :> 0))),
      Fsm_new(SimpleAlphabet, {0, 1}, 0, {0, 1}, (0 :> (0 :> 1)) @@ (1 :> NoMap)),
      Fsm_new(("a" :> 0), {0, 1}, 0, {1}, (0 :> (0 :> 1))),
      Fsm_new(("a" :> 0) @@ ("b" :> 0), {0, 1}, 0, {1},
              (0 :> (0 :> 1)) @@ (1 :> (0 :> 1))),
      Fsm_new(SimpleAlphabet, {0, 1, 2}, 0, {1, 2},
              (0 :> ((0 :> 1) @@ (1 :> 2))) @@ (1 :> (0 :> 1)) @@ (2 :> (0 :> 1))) }

\* the alphabets of Fsms and one that knows b and c but not a
Alphabets == { fsm.alphabet : fsm \in Fsms } \cup { ("b" :> 0) @@ ("c" :> 1) }
AlphabetLists == UNION { [1..n -> Alphabets] : n \in 1..MaxFsms }

InitFsm ==
    /\ fsm_info = FSMInfo(0, {}, NoMap, 0, NoMap)
    /\ vocabulary = NoMap
    /\ eos_token_id = 0
    /\ frozen_tokens = {}
    /\ states_to_token_subsets = NoMap
    /\ seen = {}
    /\ next_states = {}
    /\ pc = "call"
    /\ result = "none"
    /\ last_call = NoCall

\* A caller asks an FSM whether it accepts an input.
Accepts ==
    /\ pc = "call"
    /\ \E fsm \in Fsms, input \in Inputs :
        last_call' = [ op |-> "accepts", fsm |-> fsm, input |-> input,
                       ret |-> accepts(fsm, input) ]
    /\ pc' = "returned"
    /\ UNCHANGED << fsm_info, vocabulary, eos_token_id, frozen_tokens,
                    states_to_token_subsets, seen, next_states, result >>

\* A caller unites alphabets.
AlphabetUnion ==
    /\ pc = "call"
    /\ \E alphabets \in AlphabetLists :
        \E keys_to_key \in KeysToKeys(alphabets) :
            last_call' = [ op |-> "alphabet_union", alphabets |-> alphabets,
                           ret |-> Alphabet_union(alphabets, keys_to_key) ]
    /\ pc' = "returned"
    /\ UNCHANGED << fsm_info, vocabulary, eos_token_id, frozen_tokens,
                    states_to_token_subsets, seen, next_states, result >>

\* the lists of FSMs handed to Fsm::concatenate
FsmLists == UNION { [1..n -> Fsms] : n \in 1..MaxFsms }

\* A caller concatenates FSMs.
Concatenate ==
    /\ pc = "call"
    /\ \E fsms \in FsmLists :
        \E keys_to_key \in KeysToKeys([ i \in 1..Len(fsms) |-> fsms[i].alphabet ]) :
            \E order \in CrawlOrders(Alphabet_union([ i \in 1..Len(fsms) |-> fsms[i].alphabet ],
                                                    keys_to_key).alphabet) :
                LET r == concatenate(fsms, keys_to_key, order)
                IN last_call' = [ op |-> "concatenate", fsms |-> fsms,
                                  ret |-> r.fsm, composites |-> r.states ]
    /\ pc' = "returned"
    /\ UNCHANGED << fsm_info, vocabulary, eos_token_id, frozen_tokens,
                    states_to_token_subsets, seen, next_states, result >>

\* A caller takes the Kleene star of an FSM.
Star ==
    /\ pc = "call"
    /\ \E self \in Fsms : \E order \in CrawlOrders(self.alphabet) :
        LET r == star(self, order)
        IN last_call' = [ op |-> "star", self |-> self,
                          ret |-> r.fsm, composites |-> r.states ]
    /\ pc' = "returned"
    /\ UNCHANGED << fsm_info, vocabulary, eos_token_id, frozen_tokens,
                    states_to_token_subsets, seen, next_states, result >>

\* A caller repeats an FSM a fixed number of times.
Times ==
    /\ pc = "call"
    /\ \E self \in Fsms, multiplier \in 0..MaxTimes : \E order \in CrawlOrders(self.alphabet) :
        LET r == times(self, multiplier, order)
        IN last_call' = [ op |-> "times", self |-> self, multiplier |-> multiplier,
                          ret |-> r.fsm, composites |-> r.states ]
    /\ pc' = "returned"
    /\ UNCHANGED << fsm_info, vocabulary, eos_token_id, frozen_tokens,
                    states_to_token_subsets, seen, next_states, result >>

\* A caller complements an FSM.
EverythingBut ==
    /\ pc = "call"
    /\ \E self \in Fsms : \E order \in CrawlOrders(self.alphabet) :
        LET r == everythingbut(self, order)
        IN last_call' = [ op |-> "everythingbut", self |-> self,
                          ret |-> r.fsm, composites |-> r.states ]
    /\ pc' = "returned"
    /\ UNCHANGED << fsm_info, vocabulary, eos_token_id, frozen_tokens,
                    states_to_token_subsets, seen, next_states, result >>

ParallelTests == { "union", "intersection", "symmetric_difference", "difference" }

\* A caller combines FSMs with union, intersection, symmetric_difference or
\* difference.
Parallel ==
    /\ pc = "call"
    /\ \E fsms \in FsmLists, test \in ParallelTests :
        \E keys_to_key \in KeysToKeys([ i \in 1..Len(fsms) |-> fsms[i].alphabet ]) :
            \E order \in CrawlOrders(Alphabet_union([ i \in 1..Len(fsms) |-> fsms[i].alphabet ],
                                                    keys_to_key).alphabet) :
                LET r == parallel(fsms, test, keys_to_key, order)
                IN last_call' = [ op |-> "parallel", test |-> test, fsms |-> fsms,
                                  ret |-> r.fsm, composites |-> r.states ]
    /\ pc' = "returned"
    /\ UNCHANGED << fsm_info, vocabulary, eos_token_id, frozen_tokens,
                    states_to_token_subsets, seen, next_states, result >>

\* A caller reduces an FSM.
Reduce ==
    /\ pc = "call"
    /\ \E self \in Fsms : \E first_order, second_order \in CrawlOrders(self.alphabet) :
        LET r == reduce(self, first_order, second_order)
        IN last_call' = [ op |-> "reduce", self |-> self,
                          ret |-> r.fsm, composites |-> r.states ]
    /\ pc' = "returned"
    /\ UNCHANGED << fsm_info, vocabulary, eos_token_id, frozen_tokens,
                    states_to_token_subsets, seen, next_states, result >>

\* A caller reverses an FSM.
Reversed ==
    /\ pc = "call"
    /\ \E self \in Fsms : \E order \in CrawlOrders(self.alphabet) :
        LET r == reversed(self, order)
        IN last_call' = [ op |-> "reversed", self |-> self,
                          ret |-> r.fsm, composites |-> r.states ]
    /\ pc' = "returned"
    /\ UNCHANGED << fsm_info, vocabulary, eos_token_id, frozen_tokens,
                    states_to_token_subsets, seen, next_states, result >>

\* A caller asks an FSM for the iterator over its strings.
StringsCall ==
    /\ pc = "call"
    /\ \E self \in Fsms :
        last_call' = [ op |-> "strings", self |-> self,
                       strings |-> strings_start(self).strings,
                       result |-> strings_start(self).result,
                       yielded |-> <<>> ]
    /\ pc' = "strings"
    /\ UNCHANGED << fsm_info, vocabulary, eos_token_id, frozen_tokens,
                    states_to_token_subsets, seen, next_states, result >>

\* One round of the while loop of the iterator: the front of the queue is
\* popped and extended by every symbol that leads to a live state, in the
\* iteration order of the maps.  Strings of MaxStringLen symbols are not
\* extended.
StringsExpand ==
    /\ pc = "strings"
    /\ last_call.strings # <<>>
    /\ Len(Head(last_call.strings)[1]) < MaxStringLen
    /\ LET current_string == Head(last_call.strings)[1]
           current_state == Head(last_call.strings)[2]
           steps == strings_steps(last_call.self, current_state)
       IN \E pushes \in [ 1..Cardinality(steps) -> steps ] :
            /\ \A j, k \in DOMAIN pushes : pushes[j] = pushes[k] => j = k
            /\ LET r == strings_push(last_call.self, current_string, pushes,
                                     Tail(last_call.strings), last_call.result)
               IN last_call' = [ last_call EXCEPT !.strings = r.strings, !.result = r.result ]
    /\ UNCHANGED << fsm_info, vocabulary, eos_token_id, frozen_tokens,
                    states_to_token_subsets, seen, next_states, pc, result >>

\* The iterator returns: the queue is empty and the last element of result
\* is popped and yielded.
StringsYield ==
    /\ pc = "strings"
    /\ last_call.strings = <<>>
    /\ last_call.result # <<>>
    /\ last_call' = [ last_call EXCEPT
                        !.result = SubSeq(@, 1, Len(@) - 1),
                        !.yielded = Append(@, last_call.result[Len(last_call.result)]) ]
    /\ UNCHANGED << fsm_info, vocabulary, eos_token_id, frozen_tokens,
                    states_to_token_subsets, seen, next_states, pc, result >>

NextFsm ==
    \/ Accepts \/ AlphabetUnion \/ Concatenate \/ Star \/ Times \/ EverythingBut
    \/ Parallel \/ Reduce \/ Reversed
    \/ StringsCall \/ StringsExpand \/ StringsYield

SpecFsm == InitFsm /\ [][NextFsm]_vars

\* The transitions of an Fsm as the map from (state, key) pairs that
\* walk_fsm_internal reads.
FlatTransitions(fsm) ==
    [ p \in UNION { { << state, key >> : key \in DOMAIN fsm.map[state] } :
                        state \in DOMAIN fsm.map } |->
        fsm.map[p[1]][p[2]] ]

\* the full-match walk of the keys of input from the initial state of fsm
InputWalk(fsm, input) ==
    walk_fsm_internal(FlatTransitions(fsm), fsm.initial, fsm.finals,
                      [ j \in 1..Len(input) |-> Alphabet_get(fsm.alphabet, input[j]) ],
                      fsm.initial, TRUE)

WalkEndsFinal(fsm, walk) == walk # <<>> /\ walk[Len(walk)] \in fsm.finals

\* C13 as stated: Fsm::accepts answers true for w exactly when the
\* full-match walk of the keys of w from the initial state ends at a final
\* state.
C13_AcceptsIsWalkAsStated ==
    last_call.op = "accepts" =>
        (last_call.ret <=> WalkEndsFinal(last_call.fsm, InputWalk(last_call.fsm, last_call.input)))

\* C13: for a non-empty w, Fsm::accepts answers true exactly when the
\* full-match walk of the keys of w from the initial state returns a
\* trajectory, which then ends at a final state; for the empty w accepts
\* answers whether the initial state is final and the walk returns the
\* empty trajectory.
C13_AcceptsIsWalk ==
    last_call.op = "accepts" =>
        LET walk == InputWalk(last_call.fsm, last_call.input)
        IN IF last_call.input = <<>>
           THEN /\ last_call.ret <=> (last_call.fsm.initial \in last_call.fsm.finals)
                /\ walk = <<>>
           ELSE last_call.ret <=> WalkEndsFinal(last_call.fsm, walk)

\* C13 witness: an input of two symbols or more that the FSM accepts.
C13_Witness ==
    /\ last_call.op = "accepts"
    /\ Len(last_call.input) >= 2
    /\ last_call.ret
    /\ Len(InputWalk(last_call.fsm, last_call.input)) = Len(last_call.input)

\* C16: the united alphabet gives two symbols one key exactly when every
\* input alphabet gives them one key, and each remap table sends the new
\* key of a symbol to the key the symbol has in that input alphabet.
C16_AlphabetUnion ==
    last_call.op = "alphabet_union" =>
        LET alphabets == last_call.alphabets
            united == last_call.ret.alphabet
            remap == last_call.ret.new_to_old_mappings
        IN /\ DOMAIN united = UNION { DOMAIN alphabets[i] : i \in 1..Len(alphabets) }
           /\ \A x, y \in DOMAIN united :
                (united[x] = united[y]) <=>
                    \A i \in 1..Len(alphabets) :
                        Alphabet_get(alphabets[i], x) = Alphabet_get(alphabets[i], y)
           /\ \A x \in DOMAIN united : \A i \in 1..Len(alphabets) :
                remap[i][Alphabet_get(united, x)] = Alphabet_get(alphabets[i], x)

\* C16 witness: two alphabets, two symbols that share a key in the first
\* and not in the second, and so not in the union.
C16_Witness ==
    /\ last_call.op = "alphabet_union"
    /\ Len(last_call.alphabets) = 2
    /\ \E x, y \in DOMAIN last_call.alphabets[1] :
        /\ last_call.alphabets[1][x] = last_call.alphabets[1][y]
        /\ Alphabet_get(last_call.alphabets[2], x) # Alphabet_get(last_call.alphabets[2], y)
        /\ last_call.ret.alphabet[x] # last_call.ret.alphabet[y]

\* w splits into one piece for each of the FSMs from the n-th on, each
\* piece accepted by its FSM.
RECURSIVE InConcatenation(_, _, _)
InConcatenation(fsms, n, w) ==
    IF n > Len(fsms) THEN w = <<>>
    ELSE \E j \in 0..Len(w) :
            /\ accepts(fsms[n], SubSeq(w, 1, j))
            /\ InConcatenation(fsms, n + 1, SubSeq(w, j + 1, Len(w)))

\* w is a concatenation of k strings the FSM accepts.
RECURSIVE InPower(_, _, _)
InPower(self, k, w) ==
    IF k = 0 THEN w = <<>>
    ELSE \E j \in 0..Len(w) :
            /\ accepts(self, SubSeq(w, 1, j))
            /\ InPower(self, k - 1, SubSeq(w, j + 1, Len(w)))

\* w is a concatenation of any number of strings the FSM accepts.
RECURSIVE InStar(_, _)
InStar(self, w) ==
    \/ w = <<>>
    \/ \E j \in 1..Len(w) :
            /\ accepts(self, SubSeq(w, 1, j))
            /\ InStar(self, SubSeq(w, j + 1, Len(w)))

\* C17: the FSM Fsm::concatenate returns accepts a string exactly when the
\* string splits into one piece per input FSM, in order, each accepted by
\* its FSM.
C17_Concatenate ==
    last_call.op = "concatenate" =>
        \A w \in Inputs :
            accepts(last_call.ret, w) <=> InConcatenation(last_call.fsms, 1, w)

\* C18: the FSM Fsm::star returns accepts exactly the concatenations of any
\* number of strings the input FSM accepts.
C18_Star ==
    last_call.op = "star" =>
        \A w \in Inputs : accepts(last_call.ret, w) <=> InStar(last_call.self, w)

\* C19: the FSM Fsm::times returns for a multiplier k accepts exactly the
\* concatenations of k strings the input FSM accepts, and the iteration
\* counter of every composite state lies in 0..k.
C19_Times ==
    last_call.op = "times" =>
        /\ \A w \in Inputs :
            accepts(last_call.ret, w) <=> InPower(last_call.self, last_call.multiplier, w)
        /\ \A j \in 1..Len(last_call.composites) : \A p \in last_call.composites[j] :
            p[2] \in 0..last_call.multiplier

\* C19 witness: an FSM repeated twice accepts an input of two symbols or
\* more, and a composite state holds the counter 2.
C19_Witness ==
    /\ last_call.op = "times"
    /\ last_call.multiplier >= 2
    /\ \E w \in Inputs : Len(w) >= 2 /\ accepts(last_call.ret, w)
    /\ \E w \in Inputs : Len(w) >= 2 /\ ~accepts(last_call.ret, w)
                                    /\ accepts(last_call.self, w)
    /\ \E j \in 1..Len(last_call.composites) : \E p \in last_call.composites[j] :
        p[2] = last_call.multiplier

\* C20: over the symbols of the alphabet of F, the FSM Fsm::everythingbut
\* returns accepts a string exactly when F does not.
C20_EverythingBut ==
    last_call.op = "everythingbut" =>
        \A w \in { v \in Inputs : \A j \in 1..Len(v) : v[j] \in DOMAIN last_call.self.alphabet } :
            accepts(last_call.ret, w) <=> ~accepts(last_call.self, w)

\* C21: for every input w, union accepts w exactly when some input FSM
\* does, intersection when all do, difference when the first does and no
\* other, symmetric_difference when an odd number do; the input FSMs may
\* have different alphabets.
C21_Parallel ==
    last_call.op = "parallel" =>
        \A w \in Inputs :
            LET n == Cardinality({ i \in 1..Len(last_call.fsms) : accepts(last_call.fsms[i], w) })
                first == accepts(last_call.fsms[1], w)
            IN accepts(last_call.ret, w) <=>
                CASE last_call.test = "union" -> n >= 1
                  [] last_call.test = "intersection" -> n = Len(last_call.fsms)
                  [] last_call.test = "difference" -> first /\ n = 1
                  [] last_call.test = "symmetric_difference" -> n % 2 = 1

\* C21 witness: the difference of two FSMs with different alphabets that
\* accepts one input and rejects an input both FSMs accept.
C21_Witness ==
    /\ last_call.op = "parallel"
    /\ last_call.test = "difference"
    /\ Len(last_call.fsms) = 2
    /\ last_call.fsms[1].alphabet # last_call.fsms[2].alphabet
    /\ \E w \in Inputs : accepts(last_call.ret, w)
    /\ \E w \in Inputs : /\ accepts(last_call.fsms[1], w)
                         /\ accepts(last_call.fsms[2], w)
                         /\ ~accepts(last_call.ret, w)

\* C22: reduce, the reversal applied twice, keeps the language: reduce(F)
\* accepts an input exactly when F does.
C22_Reduce ==
    last_call.op = "reduce" =>
        \A w \in Inputs : accepts(last_call.ret, w) <=> accepts(last_call.self, w)

\* C22 witness: a reduced FSM with fewer states than the FSM it was made
\* from, that accepts an input of two symbols or more and rejects another.
C22_Witness ==
    /\ last_call.op = "reduce"
    /\ Cardinality(last_call.ret.states) < Cardinality(last_call.self.states)
    /\ \E w \in Inputs : Len(w) >= 2 /\ accepts(last_call.ret, w)
    /\ \E w \in Inputs : Len(w) >= 2 /\ ~accepts(last_call.ret, w)
                                    /\ \A j \in 1..Len(w) : w[j] \in DOMAIN last_call.self.alphabet

\* C23: strings() yields the accepted strings shortest first: no string is
\* yielded after a strictly longer one, and every string yielded is
\* accepted by the FSM.
C23_StringsShortestFirst ==
    last_call.op = "strings" =>
        /\ \A j, k \in DOMAIN last_call.yielded :
            j < k => Len(last_call.yielded[j]) <= Len(last_call.yielded[k])
        /\ \A j \in DOMAIN last_call.yielded : accepts(last_call.self, last_call.yielded[j])

\* ---- the Fsm crawl builds ----

\* The combinators built by crawl.
Combinators == { "concatenate", "star", "times", "everythingbut", "parallel", "reduce" }

\* The composite state a combinator hands to crawl as the initial one.
InitialComposites(call) ==
    CASE call.op = "concatenate" -> { connect_all(call.fsms, 0, call.fsms[1].initial) }
      [] call.op = "star" -> { { call.self.initial } }
      [] call.op = "times" -> { { << call.self.initial, 0 >> } }
      [] call.op = "everythingbut" -> { { << call.self.initial, 0 >> } }
      [] call.op = "parallel" ->
            { { << i - 1, call.fsms[i].initial >> : i \in 1..Len(call.fsms) } }
      [] call.op = "reduce" ->
            { reversed(call.self, order).fsm.finals : order \in CrawlOrders(call.self.alphabet) }

\* The states with a transition to state j.
Sources(fsm, j) ==
    { i \in DOMAIN fsm.map : \E key \in DOMAIN fsm.map[i] : fsm.map[i][key] = j }

\* The first state with a transition to state j.
FirstSource(fsm, j) == CHOOSE i \in Sources(fsm, j) : \A k \in Sources(fsm, j) : i <= k

\* C32: every Fsm returned by a combinator has its initial state among its
\* states, its finals among its states, both endpoints of every transition
\* among its states and one target for a state and a key; the state ids are
\* 0, 1, 2, ... in the order of first discovery: the initial composite is 0,
\* no composite has two ids, every other state is first reached from a
\* state with a smaller id, and a state found from an earlier state has the
\* smaller id.
C32_WellFormed ==
    last_call.op \in Combinators =>
        LET fsm == last_call.ret
            n == Len(last_call.composites)
        IN  /\ fsm.initial \in fsm.states
            /\ fsm.finals \subseteq fsm.states
            /\ DOMAIN fsm.map \subseteq fsm.states
            /\ \A i \in DOMAIN fsm.map : \A key \in DOMAIN fsm.map[i] :
                    /\ key \in by_transition_keys(fsm.alphabet)
                    /\ fsm.map[i][key] \in fsm.states
            /\ fsm.states = 0..(n - 1)
            /\ fsm.initial = 0
            /\ last_call.composites[1] \in InitialComposites(last_call)
            /\ \A j, k \in 1..n : last_call.composites[j] = last_call.composites[k] => j = k
            /\ \A j \in 1..(n - 1) :
                    /\ Sources(fsm, j) # {}
                    /\ FirstSource(fsm, j) < j
            /\ \A j, k \in 1..(n - 1) :
                    j < k => FirstSource(fsm, j) <= FirstSource(fsm, k)

\* A combinator returned an Fsm of three states or more with a transition
\* back to a state found earlier.
C32_Witness ==
    /\ last_call.op \in Combinators
    /\ Len(last_call.composites) >= 3
    /\ \E i \in DOMAIN last_call.ret.map : \E key \in DOMAIN last_call.ret.map[i] :
            last_call.ret.map[i][key] < i

\* ---------------------------------------------------------------------
\* json_schema/parsing.rs: the regex emitted for anyOf and for oneOf.
\* A regex is the sequence of its characters.  The subschemas of the
\* keyword are given by what to_regex returns for each of them: Ok with a
\* regex, or an error.
\* ---------------------------------------------------------------------

\* Largest number of subschemas under one keyword.
MaxSubschemas == 2
\* Longest regex to_regex returns for one subschema.
MaxRegexLen == 2

Ok(x) == [ kind |-> "Ok", value |-> x ]
Err(message) == [ kind |-> "Err", value |-> << message >> ]

\* Result<Vec<String>> collected from an iterator of Result<String>: the
\* first error ends the collection and is the result.
RECURSIVE Collect(_, _, _)
Collect(results, i, collected) ==
    IF i > Len(results) THEN Ok(collected)
    ELSE IF results[i].kind = "Err" THEN results[i]
    ELSE Collect(results, i + 1, Append(collected, results[i].value))

\* [String]::join
RECURSIVE join(_, _)
join(strs, sep) ==
    IF Len(strs) = 0 THEN << >>
    ELSE IF Len(strs) = 1 THEN strs[1]
    ELSE strs[1] \o sep \o join(Tail(strs), sep)

IsArray(obj, key) == key \in DOMAIN obj /\ obj[key].kind = "Array"

parse_any_of(obj) ==
    IF IsArray(obj, "anyOf")
    THEN LET subregexes == Collect(obj["anyOf"].items, 1, << >>)
         IN  IF subregexes.kind = "Err" THEN subregexes
             ELSE Ok(<< "(" >> \o join(subregexes.value, << "|" >>) \o << ")" >>)
    ELSE Err("'anyOf' must be an array")

\* format!(r"(?:{})", subregex) over every subregex
xor_patterns(subregexes) ==
    [ i \in DOMAIN subregexes |-> << "(", "?", ":" >> \o subregexes[i] \o << ")" >> ]

parse_one_of_plain(obj) ==
    IF IsArray(obj, "oneOf")
    THEN LET subregexes == Collect(obj["oneOf"].items, 1, << >>)
         IN  IF subregexes.kind = "Err" THEN subregexes
             ELSE Ok(<< "(" >> \o join(subregexes.value, << "|" >>) \o << ")" >>)
    ELSE Err("'oneOf' must be an array")

parse_one_of(obj) ==
    IF IsArray(obj, "oneOf")
    THEN LET subregexes == Collect(obj["oneOf"].items, 1, << >>)
         IN  IF subregexes.kind = "Err" THEN subregexes
             ELSE Ok(<< "(" >> \o join(xor_patterns(subregexes.value), << "|" >>)
                        \o << ")" >>)
    ELSE Err("'oneOf' must be an array")

\* ---- the two keyword encoders alone ----

RegexChars == {"a", "b", "|"}
Subregexes == SeqsUpTo(RegexChars, MaxRegexLen)
\* What to_regex returns for one subschema.
ToRegexResults == { Ok(r) : r \in Subregexes } \cup { Err("unsupported") }
\* The JSON value found under the keyword: an array of subschemas, or
\* something that is not an array.
KeywordValues ==
    { [ kind |-> "Array", items |-> l ] : l \in SeqsUpTo(ToRegexResults, MaxSubschemas) }
        \cup { [ kind |-> "String", items |-> << >> ] }
\* The schema objects that carry the keyword, and the one that does not.
Objects(key) == { key :> v : v \in KeywordValues } \cup { NoMap }

InitSchema ==
    /\ fsm_info = FSMInfo(0, {}, NoMap, 0, NoMap)
    /\ vocabulary = NoMap
    /\ eos_token_id = 0
    /\ frozen_tokens = {}
    /\ states_to_token_subsets = NoMap
    /\ seen = {}
    /\ next_states = {}
    /\ pc = "call"
    /\ result = "none"
    /\ last_call = NoCall

\* to_regex meets an anyOf keyword.
ParseAnyOf ==
    /\ pc = "call"
    /\ \E obj \in Objects("anyOf") :
        last_call' = [ op |-> "parse_any_of", obj |-> obj, ret |-> parse_any_of(obj) ]
    /\ pc' = "returned"
    /\ UNCHANGED << fsm_info, vocabulary, eos_token_id, frozen_tokens,
                    states_to_token_subsets, seen, next_states, result >>

\* to_regex meets a oneOf keyword.
ParseOneOf ==
    /\ pc = "call"
    /\ \E obj \in Objects("oneOf") :
        last_call' = [ op |-> "parse_one_of", obj |-> obj, ret |-> parse_one_of(obj) ]
    /\ pc' = "returned"
    /\ UNCHANGED << fsm_info, vocabulary, eos_token_id, frozen_tokens,
                    states_to_token_subsets, seen, next_states, result >>

\* ---- json_schema/helpers.rs and parse_integer_type ----

\* Largest digit bound written in a schema.
MaxDigits == 3

\* u64::saturating_sub
saturating_sub(n, k) == IF n > k THEN n - k ELSE 0

\* NonZeroU64::new
NonZeroU64_new(n) == IF n = 0 THEN None ELSE Some(n)

\* Option<NonZeroU64> as PartialOrd: None is less than every Some
OptionLess(x, y) == IF x = None THEN y # None ELSE y # None /\ x[1] < y[1]

\* Option::flatten
flatten(o) == IF o = None THEN None ELSE o[1]

validate_quantifiers(min_bound, max_bound, start_offset) ==
    LET min_nz == IF min_bound = None THEN None
                  ELSE Some(NonZeroU64_new(saturating_sub(min_bound[1], start_offset)))
        max_nz == IF max_bound = None THEN None
                  ELSE Some(NonZeroU64_new(saturating_sub(max_bound[1], start_offset)))
    IN  IF min_nz # None /\ max_nz # None /\ OptionLess(max_nz[1], min_nz[1])
        THEN Err("max bound must be greater than or equal to min bound")
        ELSE Ok(<< flatten(min_nz), flatten(max_nz) >>)

\* u64 formatted by {} in format!: its decimal digits
RECURSIVE to_decimal(_)
to_decimal(n) ==
    LET digit == << "0", "1", "2", "3", "4", "5", "6", "7", "8", "9" >>[(n % 10) + 1]
    IN  IF n < 10 THEN << digit >> ELSE to_decimal(n \div 10) \o << digit >>

\* obj.get(key).and_then(Value::as_u64)
get_as_u64(obj, key) ==
    IF key \in DOMAIN obj /\ obj[key].kind = "Number" THEN Some(obj[key].n) ELSE None

\* types::INTEGER
INTEGER == << "(", "-", ")", "?", "(", "0", "|", "[", "1", "-", "9", "]",
              "[", "0", "-", "9", "]", "*", ")" >>

\* the quantifier parse_integer_type formats for the two bounds
integer_quantifier(min_digits, max_digits) ==
    IF min_digits # None /\ max_digits # None
    THEN << "{" >> \o to_decimal(min_digits[1]) \o << "," >>
            \o to_decimal(max_digits[1]) \o << "}" >>
    ELSE IF min_digits # None
    THEN << "{" >> \o to_decimal(min_digits[1]) \o << ",", "}" >>
    ELSE IF max_digits # None
    THEN << "{", "0", "," >> \o to_decimal(max_digits[1]) \o << "}" >>
    ELSE << "*" >>

parse_integer_type(obj) ==
    IF "minDigits" \in DOMAIN obj \/ "maxDigits" \in DOMAIN obj
    THEN LET bounds == validate_quantifiers(get_as_u64(obj, "minDigits"),
                                            get_as_u64(obj, "maxDigits"), 1)
         IN  IF bounds.kind = "Err" THEN bounds
             ELSE Ok(<< "(", "-", ")", "?", "(", "0", "|", "[", "1", "-", "9", "]",
                        "[", "0", "-", "9", "]" >>
                     \o integer_quantifier(bounds.value[1], bounds.value[2])
                     \o << ")" >>)
    ELSE Ok(INTEGER)

\* The values found under minDigits and maxDigits: a number, or a string.
DigitValues ==
    { [ kind |-> "Number", n |-> n ] : n \in 0..MaxDigits }
        \cup { [ kind |-> "String", n |-> 0 ] }
\* The integer schemas: each of the two keys absent or with a value.
IntegerObjects ==
    { [ key \in keys |-> value[key] ] :
        keys \in SUBSET {"minDigits", "maxDigits"},
        value \in [ {"minDigits", "maxDigits"} -> DigitValues ] }

\* to_regex meets type integer.
ParseIntegerType ==
    /\ pc = "call"
    /\ \E obj \in IntegerObjects :
        last_call' = [ op |-> "parse_integer_type", obj |-> obj,
                       ret |-> parse_integer_type(obj) ]
    /\ pc' = "returned"
    /\ UNCHANGED << fsm_info, vocabulary, eos_token_id, frozen_tokens,
                    states_to_token_subsets, seen, next_states, result >>

NextSchema == ParseAnyOf \/ ParseOneOf \/ ParseIntegerType

SpecSchema == InitSchema /\ [][NextSchema]_vars

\* The anyOf object with the subschemas of a oneOf object.
AsAnyOf(obj) == "anyOf" :> obj["oneOf"]

\* The same subschemas, each regex in a non-capturing group.
Grouped(obj) ==
    "anyOf" :> [ kind |-> "Array",
                 items |-> [ i \in DOMAIN obj["oneOf"].items |->
                     IF obj["oneOf"].items[i].kind = "Err" THEN obj["oneOf"].items[i]
                     ELSE Ok(<< "(", "?", ":" >> \o obj["oneOf"].items[i].value
                                \o << ")" >>) ] ]

\* C30 as stated: for the same list of subschemas, parse_one_of returns
\* the very regex parse_any_of returns.
C30_OneOfIsAnyOfAsStated ==
    (last_call.op = "parse_one_of" /\ IsArray(last_call.obj, "oneOf"))
        => last_call.ret = parse_any_of(AsAnyOf(last_call.obj))

\* C30 (amended): for the same list of subschemas, the regex emitted for
\* oneOf is the regex emitted for anyOf over the subschemas' regexes each
\* wrapped in a non-capturing group (?:...); it is the very anyOf regex only
\* when the list is empty or a subschema fails.
C30_OneOfIsGroupedAnyOf ==
    (last_call.op = "parse_one_of" /\ IsArray(last_call.obj, "oneOf"))
        => /\ last_call.ret = parse_any_of(Grouped(last_call.obj))
           /\ (last_call.ret = parse_any_of(AsAnyOf(last_call.obj)))
                <=> \/ Len(last_call.obj["oneOf"].items) = 0
                    \/ last_call.ret.kind = "Err"

\* oneOf over two subschemas, both lowered to a regex.
C30_Witness ==
    /\ last_call.op = "parse_one_of"
    /\ IsArray(last_call.obj, "oneOf")
    /\ Len(last_call.obj["oneOf"].items) = 2
    /\ last_call.ret.kind = "Ok"
    /\ Len(last_call.ret.value) > 12

\* The quantifier of a regex parse_integer_type returned: what stands
\* between (-)?(0|[1-9][0-9] and the closing parenthesis.
Quantifier(regex) == SubSeq(regex, 18, Len(regex) - 1)

\* The number a decimal text stands for.
RECURSIVE DecimalValue(_)
DecimalValue(text) ==
    IF Len(text) = 0 THEN 0
    ELSE DecimalValue(SubSeq(text, 1, Len(text) - 1)) * 10
            + (CHOOSE d \in 0..9 : to_decimal(d) = << text[Len(text)] >>)

\* The least and the greatest number of repetitions a quantifier admits:
\* * is {0,}, {m,} has no greatest number, {m,n} has both.
QuantifierMin(q) ==
    IF q = << "*" >> THEN 0
    ELSE DecimalValue(SubSeq(q, 2, (CHOOSE i \in DOMAIN q : q[i] = ",") - 1))
QuantifierMax(q) ==
    IF q = << "*" >> \/ q[Len(q) - 1] = "," THEN None
    ELSE Some(DecimalValue(SubSeq(q, (CHOOSE i \in DOMAIN q : q[i] = ",") + 1, Len(q) - 1)))

\* An integer schema whose digit bounds are numbers a and/or b, with
\* a <= b when both are given and b >= 1.
DigitBoundsGiven(obj) ==
    /\ DOMAIN obj # {}
    /\ \A key \in DOMAIN obj : obj[key].kind = "Number"
    /\ "maxDigits" \in DOMAIN obj => obj["maxDigits"].n >= 1
    /\ DOMAIN obj = {"minDigits", "maxDigits"} => obj["minDigits"].n <= obj["maxDigits"].n

\* C31: for type integer with minDigits = a and/or maxDigits = b (a <= b,
\* b >= 1), the quantifier after [1-9][0-9] makes [1-9][0-9]{quant} match
\* only digit strings of a length in [a, b]: one plus the least number of
\* repetitions is at least a, and one plus the greatest number of
\* repetitions exists and is at most b.
C31_IntegerDigitBounds ==
    (last_call.op = "parse_integer_type" /\ DigitBoundsGiven(last_call.obj))
        => /\ last_call.ret.kind = "Ok"
           /\ "minDigits" \in DOMAIN last_call.obj
                => 1 + QuantifierMin(Quantifier(last_call.ret.value))
                        >= last_call.obj["minDigits"].n
           /\ "maxDigits" \in DOMAIN last_call.obj
                => /\ QuantifierMax(Quantifier(last_call.ret.value)) # None
                   /\ 1 + QuantifierMax(Quantifier(last_call.ret.value))[1]
                        <= last_call.obj["maxDigits"].n

\* ---- to_regex and parse_ref: the resolution of references ----

\* Frames of the call stack that hold nested calls of to_regex before the
\* thread overflows its stack.
MaxStack == 6

\* serde_json values.  A string is the sequence of its pieces: the
\* separators # and / and the names between them.
JString(str) == [ kind |-> "String", str |-> str, items |-> << >>, fields |-> NoMap ]
JNumber == [ kind |-> "Number", str |-> << >>, items |-> << >>, fields |-> NoMap ]
JArray(items) == [ kind |-> "Array", str |-> << >>, items |-> items, fields |-> NoMap ]
JObject(fields) == [ kind |-> "Object", str |-> << >>, items |-> << >>, fields |-> fields ]

\* str::split
RECURSIVE SplitLoop(_, _, _, _, _)
SplitLoop(str, sep, i, current, parts) ==
    IF i > Len(str) THEN Append(parts, current)
    ELSE IF str[i] = sep THEN SplitLoop(str, sep, i + 1, << >>, Append(parts, current))
    ELSE SplitLoop(str, sep, i + 1, Append(current, str[i]), parts)

str_split(str, sep) == SplitLoop(str, sep, 1, << >>, << >>)

\* fragment.str_split('/').filter(|&s| !s.is_empty()).collect()
path_parts_of(fragment) ==
    SelectSeq(str_split(fragment, "/"), LAMBDA part : part # << >>)

\* Value::get with a string index: the member of an object.
Value_get(json, part) ==
    IF json.kind = "Object" /\ Len(part) = 1 /\ part[1] \in DOMAIN json.fields
    THEN Some(json.fields[part[1]])
    ELSE None

\* resolve_local_ref, from part i of the path on.
RECURSIVE resolve_local_ref(_, _, _)
resolve_local_ref(current, path_parts, i) ==
    IF i > Len(path_parts) THEN Ok(current)
    ELSE IF Value_get(current, path_parts[i]) = None
    THEN Err("Invalid reference path")
    ELSE resolve_local_ref(Value_get(current, path_parts[i])[1], path_parts, i + 1)

\* parse_ref up to its call of to_regex: the error it returns, or the
\* referenced schema it hands to to_regex.
parse_ref_target(obj, full_schema) ==
    IF obj["$ref"].kind # "String" THEN Err("'$ref' must be a string")
    ELSE LET chosen(parts) ==
                 IF Len(parts) = 1 \/ (Len(parts) = 2 /\ parts[1] = << >>)
                 THEN resolve_local_ref(full_schema, path_parts_of(parts[Len(parts)]), 1)
                 ELSE IF Len(parts) = 2
                 THEN IF /\ full_schema.kind = "Object"
                         /\ "$id" \in DOMAIN full_schema.fields
                         /\ full_schema.fields["$id"].kind = "String"
                         /\ (parts[1] = full_schema.fields["$id"].str \/ parts[1] = << >>)
                      THEN resolve_local_ref(full_schema, path_parts_of(parts[2]), 1)
                      ELSE Err("External references are not supported")
                 ELSE Err("Invalid reference format")
         IN chosen(str_split(obj["$ref"].str, "#"))

\* The keywords of to_regex in the order in which it looks for them.
SchemaKeywords ==
    << "properties", "allOf", "anyOf", "oneOf", "prefixItems", "enum", "const", "$ref", "type" >>

\* find_map over the keywords: the first one the object holds, if any.
find_keyword(obj) ==
    IF \E k \in DOMAIN SchemaKeywords : SchemaKeywords[k] \in DOMAIN obj
    THEN Some(SchemaKeywords[CHOOSE k \in DOMAIN SchemaKeywords :
                               /\ SchemaKeywords[k] \in DOMAIN obj
                               /\ \A j \in 1..(k - 1) : SchemaKeywords[j] \notin DOMAIN obj])
    ELSE None

\* parse_type for the types of the documents: boolean and null.
parse_type(obj) ==
    IF obj["type"].kind # "String" THEN Err("'type' must be a string")
    ELSE IF obj["type"].str = << "boolean" >> THEN Ok(<< "(true|false)" >>)
    ELSE IF obj["type"].str = << "null" >> THEN Ok(<< "null" >>)
    ELSE Err("Unsupported type")

\* The documents handed to to_regex as json and full_schema: a schema that
\* is a type, a reference or an anyOf of types and references, beside
\* the members a and b that references can name, with or without an $id.
RefPaths ==
    { << "#" >>, << "#", "/", "a" >>, << "#", "/", "b" >>, << "#", "/", "anyOf" >>,
      << "a" >>, << "x", "#", "/", "b" >>, << "y", "#", "/", "a" >>, << "#", "#" >> }
LeafSchemas ==
    { JObject("type" :> JString(<< "boolean" >>)), JObject("type" :> JString(<< "null" >>)),
      JObject("type" :> JNumber), JObject("$ref" :> JNumber), JString(<< "a" >>) }
        \cup { JObject("$ref" :> JString(path)) : path \in RefPaths }
Subschemas ==
    LeafSchemas \cup { JObject("anyOf" :> JArray(items)) :
                         items \in SeqsUpTo(LeafSchemas, MaxSubschemas) }
                \cup { JObject("anyOf" :> JNumber) }
Documents ==
    { JObject(body.fields @@ members) :
        body \in { sub \in Subschemas : sub.kind = "Object" },
        members \in { NoMap, ("$id" :> JString(<< "x" >>)) }
                      \cup { ("a" :> sub) : sub \in LeafSchemas }
                      \cup { ("a" :> JObject("$ref" :> JString(<< "#", "/", "b" >>)))
                                @@ ("b" :> sub) @@ ("$id" :> JString(<< "x" >>)) :
                             sub \in LeafSchemas } }

InitRef ==
    /\ fsm_info = FSMInfo(0, {}, NoMap, 0, NoMap)
    /\ vocabulary = NoMap
    /\ eos_token_id = 0
    /\ frozen_tokens = {}
    /\ states_to_token_subsets = NoMap
    /\ seen = {}
    /\ next_states = {}
    /\ pc = "call"
    /\ result = "none"
    /\ last_call = NoCall

\* build_regex_from_schema calls to_regex with the document as json and as
\* full_schema.
ToRegexCall ==
    /\ pc = "call"
    /\ \E full_schema \in Documents :
        last_call' = [ op |-> "to_regex", full_schema |-> full_schema, stack |-> << >>,
                       json |-> full_schema, ret |-> None ]
    /\ pc' = "to_regex"
    /\ UNCHANGED << fsm_info, vocabulary, eos_token_id, frozen_tokens,
                    states_to_token_subsets, seen, next_states, result >>

\* The state after a handler calls to_regex for the value json: one more
\* frame, or the overflow of the stack.
Nested(frame, json) ==
    IF Len(last_call.stack) >= MaxStack
    THEN /\ pc' = "overflowed"
         /\ UNCHANGED last_call
    ELSE /\ pc' = pc
         /\ last_call' = [ last_call EXCEPT !.stack = Append(@, frame), !.json = json ]

\* The state after to_regex returns ret to its caller.
Returns(ret) ==
    /\ pc' = pc
    /\ last_call' = [ last_call EXCEPT !.ret = Some(ret) ]

\* to_regex runs for the value json up to its first nested call of to_regex,
\* or to its return when it makes none.
ToRegexStep ==
    /\ pc = "to_regex"
    /\ last_call.ret = None
    /\ LET json == last_call.json
           keyword == IF json.kind = "Object" THEN find_keyword(json.fields) ELSE None
       IN IF json.kind # "Object"
          THEN Returns(Err("Invalid JSON Schema: expected an object"))
          ELSE IF keyword = None
          THEN Returns(Err("Unsupported JSON Schema structure"))
          ELSE IF keyword = Some("type")
          THEN Returns(parse_type(json.fields))
          ELSE IF keyword = Some("$ref")
          THEN LET target == parse_ref_target(json.fields, last_call.full_schema)
               IN IF target.kind = "Err" THEN Returns(target)
                  ELSE Nested([ fn |-> "parse_ref", items |-> << >>, subregexes |-> << >> ],
                              target.value)
          ELSE IF json.fields["anyOf"].kind # "Array"
          THEN Returns(Err("'anyOf' must be an array"))
          ELSE IF json.fields["anyOf"].items = << >>
          THEN Returns(Ok(<< "(", ")" >>))
          ELSE Nested([ fn |-> "parse_any_of", items |-> json.fields["anyOf"].items,
                        subregexes |-> << >> ],
                      json.fields["anyOf"].items[1])
    /\ UNCHANGED << fsm_info, vocabulary, eos_token_id, frozen_tokens,
                    states_to_token_subsets, seen, next_states, result >>

\* A nested call of to_regex returns to the handler that made it: parse_ref
\* returns what it got, parse_any_of returns the first error, goes on with
\* its next subschema, or returns the alternation of the subregexes.
ToRegexReturn ==
    /\ pc = "to_regex"
    /\ last_call.ret # None
    /\ last_call.stack # << >>
    /\ LET frame == last_call.stack[Len(last_call.stack)]
           popped == SubSeq(last_call.stack, 1, Len(last_call.stack) - 1)
           got == last_call.ret[1]
       IN IF frame.fn = "parse_ref" \/ got.kind = "Err"
          THEN last_call' = [ last_call EXCEPT !.stack = popped ]
          ELSE IF Len(frame.subregexes) + 1 < Len(frame.items)
          THEN last_call' = [ last_call EXCEPT
                                !.stack = Append(popped,
                                    [ frame EXCEPT !.subregexes = Append(@, got.value) ]),
                                !.json = frame.items[Len(frame.subregexes) + 2],
                                !.ret = None ]
          ELSE last_call' = [ last_call EXCEPT
                                !.stack = popped,
                                !.ret = Some(Ok(<< "(" >>
                                    \o join(Append(frame.subregexes, got.value), << "|" >>)
                                    \o << ")" >>)) ]
    /\ UNCHANGED << fsm_info, vocabulary, eos_token_id, frozen_tokens,
                    states_to_token_subsets, seen, next_states, pc, result >>

\* The outermost to_regex returns to build_regex_from_schema.
ToRegexDone ==
    /\ pc = "to_regex"
    /\ last_call.ret # None
    /\ last_call.stack = << >>
    /\ pc' = "returned"
    /\ UNCHANGED << fsm_info, vocabulary, eos_token_id, frozen_tokens,
                    states_to_token_subsets, seen, next_states, result, last_call >>

NextRef == ToRegexCall \/ ToRegexStep \/ ToRegexReturn \/ ToRegexDone

SpecRef == InitRef /\ [][NextRef]_vars

\* to_regex is sequential code that keeps running.
SpecRefFair == SpecRef /\ WF_vars(NextRef)

\* C39: to_regex terminates for every JSON schema, also for one with a $ref
\* that resolves to itself or to an ancestor: the call returns a regex or an
\* error.
C39_ToRegexTerminates ==
    <>(pc = "returned")

\* ---------------------------------------------------------------------
\* interegular/simple_parser.rs and interegular/patterns.rs: the regex
\* parser.  A character is its Unicode scalar value, a pattern the sequence
\* of its characters; the parser's index counts characters from 0, so the
\* character at index i is data[i + 1].  Every parsing function takes the
\* data and the index it starts at and returns what it produced together
\* with the index it leaves the parser at: Ok with a value, Err (a NoMatch,
\* whose diagnostic content is left out), or Abort where the code panics.
\* ---------------------------------------------------------------------

\* The printable ASCII characters in the order of their code points: from
\* the space (32) to the underscore (95), and from a (97) to the tilde (126).
AsciiLow ==
    << " ", "!", "\"", "#", "$", "%", "&", "'", "(", ")", "*", "+", ",", "-", ".", "/",
       "0", "1", "2", "3", "4", "5", "6", "7", "8", "9", ":", ";", "<", "=", ">", "?",
       "@", "A", "B", "C", "D", "E", "F", "G", "H", "I", "J", "K", "L", "M", "N", "O",
       "P", "Q", "R", "S", "T", "U", "V", "W", "X", "Y", "Z", "[", "\\", "]", "^", "_" >>
AsciiHigh ==
    << "a", "b", "c", "d", "e", "f", "g", "h", "i", "j", "k", "l", "m", "n", "o", "p",
       "q", "r", "s", "t", "u", "v", "w", "x", "y", "z", "{", "|", "}", "~" >>

\* char as u32
ch(c) ==
    IF \E n \in DOMAIN AsciiHigh : AsciiHigh[n] = c
    THEN 96 + (CHOOSE n \in DOMAIN AsciiHigh : AsciiHigh[n] = c)
    ELSE 31 + (CHOOSE n \in DOMAIN AsciiLow : AsciiLow[n] = c)
chars_of(S) == { ch(c) : c \in S }

SPECIAL_CHARS_INNER == chars_of({"\\", "]"})
SPECIAL_CHARS_STANDARD ==
    chars_of({"+", "?", "*", ".", "$", "^", "\\", "(", ")", "[", "|"})

\* "0123456789", "01234567", "0123456789abcdefABCDEF", a-z with A-Z
Digits == ch("0") .. ch("9")
OctalDigits == ch("0") .. (ch("0") + 7)
HexDigits == Digits \cup (ch("a") .. ch("f")) \cup ((ch("a") - 32) .. (ch("f") - 32))
Letters == (ch("a") .. (ch("a") + 25)) \cup ((ch("a") - 32) .. (ch("a") - 7))

\* ---- RegexElement ----
Literal(c) == [ type |-> "Literal", char |-> c ]
CharGroup(chars, inverted) == [ type |-> "CharGroup", chars |-> chars, inverted |-> inverted ]
Repeated(element, min, max) == [ type |-> "Repeated", element |-> element, min |-> min, max |-> max ]
Concatenation(parts) == [ type |-> "Concatenation", parts |-> parts ]
Alternation(options) == [ type |-> "Alternation", options |-> options ]

\* ---- results of the parsing functions ----
Parsed(value, index) == [ kind |-> "Ok", value |-> value, index |-> index ]
NoMatch(index) == [ kind |-> "Err", value |-> [ type |-> "NoMatch" ], index |-> index ]
Panic == [ kind |-> "Abort", value |-> [ type |-> "panic" ], index |-> 0 ]

\* ---- SimpleParser ----

\* static_b and peek_static for an expected string of one character: true
\* when the data holds it at the index (static_b then advances by one).
static_b(data, index, expected) == index < Len(data) /\ data[index + 1] = ch(expected)

\* anyof and anyof_b for strings of one character each
anyof(data, index, strings) == index < Len(data) /\ data[index + 1] \in chars_of(strings)

\* any(1)
any(data, index) ==
    IF index + 1 <= Len(data) THEN Parsed(data[index + 1], index + 1) ELSE NoMatch(index)

\* any_but(strings, 1)
any_but(data, index, strings) ==
    IF index + 1 <= Len(data) /\ data[index + 1] \notin strings
    THEN Parsed(data[index + 1], index + 1)
    ELSE NoMatch(index)

\* multiple: the characters matched so far stay consumed when the minimum
\* is not reached.
RECURSIVE MultipleLoop(_, _, _, _, _, _, _)
MultipleLoop(data, index, chars, min, max, n, matched) ==
    IF n < min
    THEN IF index < Len(data) /\ data[index + 1] \in chars
         THEN MultipleLoop(data, index + 1, chars, min, max, n + 1,
                           Append(matched, data[index + 1]))
         ELSE NoMatch(index)
    ELSE IF (max = None \/ n < max[1]) /\ index < Len(data) /\ data[index + 1] \in chars
         THEN MultipleLoop(data, index + 1, chars, min, max, n + 1,
                           Append(matched, data[index + 1]))
         ELSE Parsed(matched, index)

multiple(data, index, chars, min, max) ==
    MultipleLoop(data, index, chars, min, max, 0, << >>)

\* ---- conversions ----

\* the value of one digit in from_str_radix and str::parse
DigitValue(c) ==
    IF c \in Digits THEN c - ch("0")
    ELSE IF c >= ch("a") THEN c - ch("a") + 10
    ELSE c - (ch("a") - 32) + 10

\* u32::from_str_radix(n, radix), also num.parse() with radix 10
RECURSIVE from_str_radix(_, _)
from_str_radix(n, radix) ==
    IF Len(n) = 0 THEN 0
    ELSE from_str_radix(SubSeq(n, 1, Len(n) - 1), radix) * radix + DigitValue(n[Len(n)])

\* char::is_alphabetic on the characters of this model, which are ASCII
is_alphabetic(c) == c \in Letters

\* ---- ParsePattern ----

_combine_char_groups(groups, negate) ==
    LET pos == UNION { groups[i].chars : i \in { j \in DOMAIN groups : ~groups[j].inverted } }
        neg == UNION { groups[i].chars : i \in { j \in DOMAIN groups : groups[j].inverted } }
    IN  IF neg # {} THEN CharGroup(neg \ pos, ~negate)
        ELSE CharGroup(pos \ neg, negate)

\* the optional static_b("?") after a repetition operator
Lazy(data, index) == IF static_b(data, index, "?") THEN index + 1 ELSE index

number(data, index) ==
    LET num == multiple(data, index, Digits, 1, None)
    IN  IF num.kind = "Ok" THEN Parsed(from_str_radix(num.value, 10), num.index) ELSE num

repetition(data, index, base) ==
    IF static_b(data, index, "*")
    THEN Parsed(Repeated(base, 0, None), Lazy(data, index + 1))
    ELSE IF static_b(data, index, "+")
    THEN Parsed(Repeated(base, 1, None), Lazy(data, index + 1))
    ELSE IF static_b(data, index, "?")
    THEN Parsed(Repeated(base, 0, Some(1)), Lazy(data, index + 1))
    ELSE IF static_b(data, index, "{")
    THEN LET closing(n, m, after_m) ==
                 Parsed(Repeated(base, n, m),
                        Lazy(data, IF static_b(data, after_m, "}")
                                   THEN after_m + 1 ELSE after_m))
             upper(n, second) ==
                 closing(n, IF second.kind = "Ok" THEN Some(second.value) ELSE None,
                         second.index)
             lower(n, after_n) ==
                 IF static_b(data, after_n, ",")
                 THEN upper(n, number(data, after_n + 1))
                 ELSE closing(n, Some(n), after_n)
             bounds(first) ==
                 lower(IF first.kind = "Ok" THEN first.value ELSE 0, first.index)
         IN  bounds(number(data, index + 1))
    ELSE Parsed(base, index)

\* the character classes of an escape inside a character group
EscapeClass(c) ==
    IF c = ch("w") THEN Letters \cup {ch("_")} \cup Digits
    ELSE IF c \in chars_of({"W", "D", "s", "S"}) THEN {10, 13, 9, 11, 12, ch(" ")}
    ELSE IF c = ch("d") THEN Digits
    ELSE IF c = ch("a") THEN {7}
    ELSE IF c = ch("b") THEN {8}
    ELSE IF c = ch("f") THEN {12}
    ELSE IF c = ch("n") THEN {10}
    ELSE IF c = ch("r") THEN {13}
    ELSE IF c = ch("t") THEN {9}
    ELSE {11}

\* the last resort of escaped: any character but an ASCII letter stands
\* for itself
EscapedOther(data, index) ==
    LET n == any_but(data, index, Letters)
    IN  IF n.kind = "Err" THEN n
        ELSE IF is_alphabetic(n.value) THEN NoMatch(n.index)
        ELSE Parsed(CharGroup({n.value}, FALSE), n.index)

escaped(data, index, inner) ==
    IF static_b(data, index, "x")
    THEN LET n == multiple(data, index + 1, HexDigits, 2, Some(2))
         IN  IF n.kind = "Err" THEN n
             ELSE Parsed(CharGroup({from_str_radix(n.value, 16)}, FALSE), n.index)
    ELSE IF static_b(data, index, "0")
    THEN LET n == multiple(data, index + 1, OctalDigits, 1, Some(2))
         IN  IF n.kind = "Err" THEN n
             ELSE Parsed(CharGroup({from_str_radix(n.value, 8)}, FALSE), n.index)
    ELSE IF anyof(data, index, {"N", "p", "P", "u", "U"})
    THEN Panic
    ELSE IF ~inner
    THEN LET n == multiple(data, index, OctalDigits, 3, Some(3))
         IN  IF n.kind = "Ok"
             THEN Parsed(CharGroup({from_str_radix(n.value, 8)}, FALSE), n.index)
             ELSE LET d == multiple(data, n.index, Digits, 1, Some(2))
                  IN  IF d.kind = "Ok" THEN Panic
                      ELSE EscapedOther(data, d.index)
    ELSE LET n == multiple(data, index, OctalDigits, 1, Some(3))
         IN  IF n.kind = "Ok"
             THEN Parsed(CharGroup({from_str_radix(n.value, 8)}, FALSE), n.index)
             ELSE IF anyof(data, n.index, {"w", "W", "d", "D", "s", "S", "a", "b",
                                           "f", "n", "r", "t", "v"})
             THEN Parsed(CharGroup(EscapeClass(data[n.index + 1]), FALSE), n.index + 1)
             ELSE EscapedOther(data, n.index)

\* one item of a character group: a character, an escape, or a range
chargroup_inner(data, index) ==
    LET lowest(base) == CHOOSE l \in base.value.chars : \A o \in base.value.chars : l <= o
        range_to_escaped(base, end_escaped) ==
            IF end_escaped.kind # "Ok" THEN end_escaped
            ELSE IF base.kind = "Err" THEN NoMatch(end_escaped.index)
            ELSE LET high == CHOOSE h \in end_escaped.value.chars :
                                 \A o \in end_escaped.value.chars : h <= o
                 IN  IF lowest(base) <= high
                     THEN Parsed(CharGroup(lowest(base) .. high, FALSE), end_escaped.index)
                     ELSE Panic
        range_to_char(base, end_char) ==
            IF end_char.kind = "Err" THEN end_char
            ELSE IF base.kind = "Err" THEN NoMatch(end_char.index)
            ELSE IF lowest(base) <= end_char.value
            THEN Parsed(CharGroup(lowest(base) .. end_char.value, FALSE), end_char.index)
            ELSE Panic
        after_base(base) ==
            IF base.kind = "Abort" THEN Panic
            ELSE IF ~static_b(data, base.index, "-") THEN base
            ELSE IF static_b(data, base.index + 1, "\\")
            THEN range_to_escaped(base, escaped(data, base.index + 2, TRUE))
            ELSE IF static_b(data, base.index + 1, "]")
            THEN IF base.kind = "Err" THEN NoMatch(base.index + 1)
                 ELSE Parsed(_combine_char_groups(
                                << base.value, CharGroup({ch("-")}, FALSE) >>, FALSE),
                             base.index + 1)
            ELSE range_to_char(base, any_but(data, base.index + 1, SPECIAL_CHARS_INNER))
        after_char(c) ==
            IF c.kind = "Err" THEN c
            ELSE after_base(Parsed(CharGroup({c.value}, FALSE), c.index))
    IN  IF static_b(data, index, "\\")
        THEN after_base(escaped(data, index + 1, TRUE))
        ELSE after_char(any_but(data, index, SPECIAL_CHARS_INNER))

\* the items of a character group, until one does not parse
RECURSIVE ChargroupLoop(_, _, _)
ChargroupLoop(data, index, groups) ==
    LET after_item(item) ==
            IF item.kind = "Ok"
            THEN ChargroupLoop(data, item.index, Append(groups, item.value))
            ELSE IF item.kind = "Abort" THEN Panic
            ELSE Parsed(groups, item.index)
    IN  after_item(chargroup_inner(data, index))

chargroup(data, index) ==
    LET negate == static_b(data, index, "^")
        close(groups, closed) ==
            IF Len(groups) = 1
            THEN Parsed(CharGroup(groups[1].chars, groups[1].inverted # negate), closed)
            ELSE IF Len(groups) = 0 THEN Parsed(CharGroup({}, negate), closed)
            ELSE Parsed(_combine_char_groups(groups, negate), closed)
        after_items(items) ==
            IF items.kind = "Abort" THEN Panic
            ELSE close(items.value,
                       IF static_b(data, items.index, "]")
                       THEN items.index + 1 ELSE items.index)
    IN  after_items(ChargroupLoop(data, IF negate THEN index + 1 ELSE index, << >>))

\* (?...): the flags are read and then the code gives up
extension_group(data, index) ==
    LET c == any(data, index)
        added_flags == multiple(data, index, chars_of({"a", "i", "L", "m", "s", "u", "x"}),
                                0, None)
        removed_flags == multiple(data, added_flags.index + 1,
                                  chars_of({"a", "i", "L", "m", "s", "u", "x"}), 1, None)
    IN  IF c.kind = "Err" THEN c
        ELSE IF c.value \in chars_of({"a", "i", "L", "m", "s", "u", "x", "-"})
                /\ static_b(data, added_flags.index, "-") /\ removed_flags.kind = "Err"
        THEN removed_flags
        ELSE Panic

\* let r = f()?; self.repetition(r): the repetition of what parsed, or the
\* failure handed on
Repeat(data, parsed) ==
    IF parsed.kind = "Ok" THEN repetition(data, parsed.index, parsed.value) ELSE parsed

\* CharGroup over the one character that parsed
AsCharGroup(c) ==
    IF c.kind = "Ok" THEN Parsed(CharGroup({c.value}, FALSE), c.index) ELSE c

RECURSIVE pattern(_, _)
RECURSIVE PatternLoop(_, _, _)
RECURSIVE ConcLoop(_, _, _)
RECURSIVE obj(_, _)
RECURSIVE atom(_, _)
RECURSIVE group(_, _)

atom_unconsumed(data, index) ==
    IF static_b(data, index, "[")
    THEN Repeat(data, chargroup(data, index + 1))
    ELSE IF static_b(data, index, "\\")
    THEN Repeat(data, escaped(data, index + 1, FALSE))
    ELSE IF static_b(data, index, ".")
    THEN repetition(data, index + 1, CharGroup({10}, TRUE))
    ELSE IF static_b(data, index, "$")
    THEN NoMatch(index)
    ELSE IF static_b(data, index, "^")
    THEN NoMatch(index)
    ELSE Repeat(data, AsCharGroup(any_but(data, index, SPECIAL_CHARS_STANDARD)))

atom(data, index) ==
    IF static_b(data, index, "[")
    THEN Repeat(data, chargroup(data, index + 1))
    ELSE IF static_b(data, index, "\\")
    THEN Repeat(data, escaped(data, index + 1, FALSE))
    ELSE IF static_b(data, index, ".")
    THEN repetition(data, index + 1, CharGroup({10}, TRUE))
    ELSE IF static_b(data, index, "$")
    THEN NoMatch(index + 1)
    ELSE IF static_b(data, index, "^")
    THEN NoMatch(index + 1)
    ELSE Repeat(data, AsCharGroup(any_but(data, index, SPECIAL_CHARS_STANDARD)))

group(data, index) ==
    IF static_b(data, index, "?")
    THEN extension_group(data, index + 1)
    ELSE LET unwrapped(p) ==
                 IF p.kind # "Ok" THEN Panic
                 ELSE repetition(data,
                                 IF static_b(data, p.index, ")")
                                 THEN p.index + 1 ELSE p.index,
                                 p.value)
         IN  unwrapped(pattern(data, index))

obj(data, index) ==
    IF static_b(data, index, "(")
    THEN group(data, index + 1)
    ELSE Repeat(data, atom(data, index))

\* conc: objects as long as one parses; the index stays where the object
\* that did not parse left it
ConcLoop(data, index, parts) ==
    LET after_obj(o) ==
            IF o.kind = "Ok" THEN ConcLoop(data, o.index, Append(parts, o.value))
            ELSE IF o.kind = "Abort" THEN Panic
            ELSE Parsed(Concatenation(parts), o.index)
    IN  after_obj(obj(data, index))

conc(data, index) == ConcLoop(data, index, << >>)

PatternLoop(data, index, options) ==
    IF static_b(data, index, "|")
    THEN LET after_conc(c) ==
                 IF c.kind # "Ok" THEN c
                 ELSE PatternLoop(data, c.index, Append(options, c.value))
         IN  after_conc(conc(data, index + 1))
    ELSE Parsed(Alternation(options), index)

pattern(data, index) ==
    LET first_conc(c) ==
            IF c.kind # "Ok" THEN c ELSE PatternLoop(data, c.index, << c.value >>)
    IN  first_conc(conc(data, index))

\* start: the flags are None, so the pattern is the result
start(data) == pattern(data, 0)

\* ParsePattern::parse
parse(data) ==
    LET whole(parsed) ==
            IF parsed.kind # "Ok" THEN parsed
            ELSE IF parsed.index < Len(data) THEN NoMatch(parsed.index)
            ELSE parsed
    IN  whole(start(data))

RECURSIVE simplify(_)
simplify(self) ==
    IF self.type = "Alternation"
    THEN IF /\ Len(self.options) = 1
            /\ self.options[1].type = "Concatenation"
            /\ Len(self.options[1].parts) = 1
            /\ self.options[1].parts[1].type = "Alternation"
         THEN simplify(self.options[1].parts[1])
         ELSE Alternation([ i \in DOMAIN self.options |-> simplify(self.options[i]) ])
    ELSE IF self.type = "Repeated"
    THEN Repeated(simplify(self.element), self.min, self.max)
    ELSE self

parse_pattern(data) ==
    LET simplified(raw_result) ==
            IF raw_result.kind = "Ok"
            THEN Parsed(simplify(raw_result.value), raw_result.index)
            ELSE raw_result
    IN  simplified(parse(data))

\* ---------------------------------------------------------------------
\* interegular/patterns.rs: lowering of a RegexElement to an Fsm, on the
\* Fsm and Alphabet of interegular/fsm.rs.  An Alphabet is here the record
\* of its two fields, because parse_pattern_to_fms builds one whose
\* by_transition leaves a key of symbol_mapping out; the alphabet field of
\* an Fsm stays the symbol mapping, as above.  The keys Alphabet::union
\* hands out and the key order of crawl depend on the iteration order of a
\* HashMap, so each function below is the set of the results its call can
\* return.
\* ---------------------------------------------------------------------

\* Alphabet::new
Alphabet_new(symbol_mapping) ==
    [ symbol_mapping |-> symbol_mapping,
      by_transition |->
        [ key \in by_transition_keys(symbol_mapping) |->
            { symbol \in DOMAIN symbol_mapping : symbol_mapping[symbol] = key } ] ]

\* Alphabet::empty, the alphabet of no symbol
Alphabet_empty == Alphabet_new(NoMap)

\* Alphabet::from_groups: the groups are numbered from 0 and a later group
\* overwrites an earlier one
Alphabet_from_groups(groups) ==
    Alphabet_new([ symbol \in UNION { groups[i] : i \in DOMAIN groups } |->
        (CHOOSE i \in DOMAIN groups :
            symbol \in groups[i] /\ \A j \in DOMAIN groups : symbol \in groups[j] => j <= i)
        - 1 ])

\* The alphabets Alphabet::union can return for two alphabets.
UnionOutcomes(a, b) ==
    { Alphabet_new(Alphabet_union(<< a.symbol_mapping, b.symbol_mapping >>, keys_to_key).alphabet) :
        keys_to_key \in KeysToKeys(<< a.symbol_mapping, b.symbol_mapping >>) }

RECURSIVE get_alphabet(_)

\* The for loop of get_alphabet over the parts, before part i, with the
\* alphabets the loop can hold.
RECURSIVE GetAlphabetLoop(_, _, _)
GetAlphabetLoop(parts, i, alphabets) ==
    IF i > Len(parts) THEN alphabets
    ELSE GetAlphabetLoop(parts, i + 1,
            UNION { UNION { UnionOutcomes(a, b) : b \in get_alphabet(parts[i]) } :
                        a \in alphabets })

get_alphabet(self) ==
    CASE self.type = "CharGroup" -> { Alphabet_from_groups(<< self.chars, {0} >>) }
      [] self.type = "Literal" -> { Alphabet_from_groups(<< {self.char} >>) }
      [] self.type = "Repeated" -> get_alphabet(self.element)
      [] self.type = "Alternation" -> GetAlphabetLoop(self.options, 1, { Alphabet_empty })
      [] self.type = "Concatenation" -> GetAlphabetLoop(self.parts, 1, { Alphabet_empty })

\* ---- results of the lowering functions ----
Returned(fsm) == [ kind |-> "Ok", fsm |-> fsm ]
Unwound == [ kind |-> "Abort", fsm |-> Fsm_new(NoMap, {}, 0, {}, NoMap) ]

\* The FSMs Fsm::concatenate, Fsm::union and Fsm::star can return.
ConcatenateOutcomes(fsms) ==
    UNION { { concatenate(fsms, keys_to_key, order).fsm :
                order \in CrawlOrders(Alphabet_union([ i \in 1..Len(fsms) |-> fsms[i].alphabet ],
                                                     keys_to_key).alphabet) } :
            keys_to_key \in KeysToKeys([ i \in 1..Len(fsms) |-> fsms[i].alphabet ]) }

FsmUnionOutcomes(fsms) ==
    UNION { { parallel(fsms, "union", keys_to_key, order).fsm :
                order \in CrawlOrders(Alphabet_union([ i \in 1..Len(fsms) |-> fsms[i].alphabet ],
                                                     keys_to_key).alphabet) } :
            keys_to_key \in KeysToKeys([ i \in 1..Len(fsms) |-> fsms[i].alphabet ]) }

StarOutcomes(self) == { star(self, order).fsm : order \in CrawlOrders(self.alphabet) }

\* One result for each part, in every way.
RECURSIVE Selections(_)
Selections(sets) ==
    IF Len(sets) = 0 THEN { << >> }
    ELSE { << x >> \o rest : x \in sets[1], rest \in Selections(Tail(sets)) }

\* fold(seed, |acc, f| Fsm::concatenate(&[acc, f])) over n copies of f,
\* with the FSMs the accumulator can be
RECURSIVE FoldConcatenate(_, _, _)
FoldConcatenate(accs, f, n) ==
    IF n = 0 THEN accs
    ELSE FoldConcatenate(UNION { ConcatenateOutcomes(<< acc, f >>) : acc \in accs }, f, n - 1)

\* the alphabet to_fsm works with: the one given, or the element's own
GivenAlphabets(self, alphabet) ==
    IF alphabet = None THEN get_alphabet(self) ELSE { alphabet[1] }

\* to_fsm of a Literal
LiteralFsm(self, A) ==
    Fsm_new(A.symbol_mapping, DOMAIN A.by_transition, 0, {1},
            0 :> (Alphabet_get(A.symbol_mapping, self.char) :> 1))

\* to_fsm of a CharGroup.  Inverted, the keys of by_transition less the
\* characters of the group taken as numbers get an edge; otherwise every
\* character of the group, in ascending order, replaces the row of state 0
\* by the row of its own key.
CharGroupFsm(self, A) ==
    LET last == CHOOSE c \in self.chars : \A o \in self.chars : o <= c
        mapping ==
            IF self.inverted
            THEN 0 :> [ symbol \in (DOMAIN A.by_transition) \ self.chars |-> 1 ]
            ELSE IF self.chars = {} THEN NoMap
            ELSE 0 :> (Alphabet_get(A.symbol_mapping, last) :> 1)
    IN  Fsm_new(A.symbol_mapping, 0..1, 0, {1}, mapping)

RECURSIVE to_fsm(_, _)

\* to_fsm of a Repeated, for one unit, one base_fsm and the alphabet
RepeatedFsm(self, A, unit, base_fsm) ==
    LET mandatory == FoldConcatenate({ Fsm_new(A.symbol_mapping, {0}, 0, {0}, 0 :> NoMap) },
                                     base_fsm, self.min)
        optional ==
            IF self.max = None THEN StarOutcomes(unit)
            ELSE FoldConcatenate({ Fsm_new(A.symbol_mapping, {}, 0, {}, NoMap) },
                                 [ unit EXCEPT !.finals = @ \cup { unit.initial } ],
                                 self.max[1] - self.min)
    IN  IF self.max # None /\ self.max[1] < self.min THEN { Unwound }
        ELSE { Returned(f) :
                f \in UNION { ConcatenateOutcomes(<< m, o >>) : m \in mandatory, o \in optional } }

\* to_fsm of a Concatenation or of an Alternation, for one FSM per part
PartsFsm(self, current) ==
    IF \E i \in DOMAIN current : current[i].kind = "Abort" THEN { Unwound }
    ELSE IF self.type = "Concatenation"
    THEN IF Len(current) = 0 THEN { Unwound }
         ELSE { Returned(f) : f \in ConcatenateOutcomes([ i \in DOMAIN current |-> current[i].fsm ]) }
    ELSE { Returned(f) : f \in FsmUnionOutcomes([ i \in DOMAIN current |-> current[i].fsm ]) }

to_fsm(self, alphabet) ==
    CASE self.type = "Literal" ->
            { Returned(LiteralFsm(self, A)) : A \in GivenAlphabets(self, alphabet) }
      [] self.type = "CharGroup" ->
            { Returned(CharGroupFsm(self, A)) : A \in GivenAlphabets(self, alphabet) }
      [] self.type = "Repeated" ->
            UNION { IF unit.kind = "Abort" THEN { Unwound }
                    ELSE UNION { UNION { IF base_fsm.kind = "Abort" THEN { Unwound }
                                         ELSE RepeatedFsm(self, A, unit.fsm, base_fsm.fsm) :
                                            base_fsm \in to_fsm(self.element, Some(A)) } :
                                    A \in GivenAlphabets(self, alphabet) } :
                        unit \in to_fsm(self.element, alphabet) }
      [] self.type = "Concatenation" ->
            UNION { PartsFsm(self, current) :
                        current \in Selections([ i \in DOMAIN self.parts |->
                                                    to_fsm(self.parts[i], alphabet) ]) }
      [] self.type = "Alternation" ->
            UNION { PartsFsm(self, current) :
                        current \in Selections([ i \in DOMAIN self.options |->
                                                    to_fsm(self.options[i], alphabet) ]) }

\* the alphabet parse_pattern_to_fms makes of the pattern's alphabet: '\0'
\* gets key 0 and every other symbol its key plus one; by_transition gets
\* the keys of those other symbols alone
ShiftedAlphabet(patterns_alphabet) ==
    LET others == (DOMAIN patterns_alphabet.symbol_mapping) \ {0}
    IN  [ symbol_mapping |->
            (0 :> 0) @@ [ symbol \in others |-> patterns_alphabet.symbol_mapping[symbol] + 1 ],
          by_transition |->
            [ new_index \in { patterns_alphabet.symbol_mapping[symbol] + 1 : symbol \in others } |->
                { symbol \in others :
                    patterns_alphabet.symbol_mapping[symbol] + 1 = new_index } ] ]

parse_pattern_to_fms(data) ==
    LET lowered(regex_element) ==
            IF regex_element.kind # "Ok" THEN { Unwound }
            ELSE UNION { to_fsm(regex_element.value,
                                Some(ShiftedAlphabet(patterns_alphabet))) :
                            patterns_alphabet \in get_alphabet(regex_element.value) }
    IN  lowered(parse_pattern(data))

\* ---- the regex functions alone ----

\* Longest pattern handed to the parser.
MaxPatternLen == 3

PatternChars ==
    {"a", "b", "$", "^", "\\", "p", "1", "9", "|", "(", ")", "?", "[", "]", "{", "}"}
Patterns == SeqsUpTo(PatternChars, MaxPatternLen)
\* the characters of a &str
chars(str) == [ i \in DOMAIN str |-> ch(str[i]) ]

InitPatterns ==
    /\ fsm_info = FSMInfo(0, {}, NoMap, 0, NoMap)
    /\ vocabulary = NoMap
    /\ eos_token_id = 0
    /\ frozen_tokens = {}
    /\ states_to_token_subsets = NoMap
    /\ seen = {}
    /\ next_states = {}
    /\ pc = "call"
    /\ result = "none"
    /\ last_call = NoCall

\* A caller parses a pattern.
ParsePattern ==
    /\ pc = "call"
    /\ \E data \in Patterns :
        last_call' = [ op |-> "parse_pattern", pattern |-> data,
                       ret |-> parse_pattern(chars(data)) ]
    /\ pc' = "returned"
    /\ UNCHANGED << fsm_info, vocabulary, eos_token_id, frozen_tokens,
                    states_to_token_subsets, seen, next_states, result >>

\* Largest repetition count of an element handed to to_fsm.
MaxRepeat == 2

\* Longest pattern of literal characters lowered.
MaxLiterals == 2

\* The patterns lowered: sequences of literal characters.
LowerPatterns == SeqsUpTo({"a", "b"}, MaxLiterals)

\* The character groups, and the elements built of them, handed to to_fsm.
CharGroups ==
    { CharGroup(chars_of(S), inverted) : S \in SUBSET {"a", "b"}, inverted \in BOOLEAN }
Elements ==
    CharGroups
    \cup { Literal(ch("a")) }
    \cup { Repeated(CharGroup({ch(c)}, FALSE), n, Some(m)) :
            c \in {"a"}, n \in 0..MaxRepeat, m \in 0..MaxRepeat }
    \cup { Repeated(CharGroup({ch("a")}, FALSE), n, None) : n \in 0..MaxRepeat }
    \cup { Concatenation(<< CharGroup({ch("a")}, FALSE), CharGroup({ch("b")}, FALSE) >>),
           Alternation(<< CharGroup({ch("a")}, FALSE), CharGroup({ch("b")}, FALSE) >>) }

\* The alphabets handed to to_fsm: a and b under one key or under two,
\* as Alphabet::new builds them and as parse_pattern_to_fms does.
ElementAlphabets ==
    { Alphabet_new((0 :> 0) @@ (ch("a") :> 1) @@ (ch("b") :> 2)),
      Alphabet_new((0 :> 0) @@ (ch("a") :> 1) @@ (ch("b") :> 1)),
      ShiftedAlphabet(Alphabet_new((0 :> 2) @@ (ch("a") :> 0) @@ (ch("b") :> 1))),
      ShiftedAlphabet(Alphabet_from_groups(<< chars_of({"a", "b"}), {0} >>)) }

\* A caller lowers a pattern to an FSM.
ParsePatternToFms ==
    /\ pc = "call"
    /\ \E data \in LowerPatterns : \E fsm \in parse_pattern_to_fms(chars(data)) :
        last_call' = [ op |-> "parse_pattern_to_fms", pattern |-> data, ret |-> fsm ]
    /\ pc' = "returned"
    /\ UNCHANGED << fsm_info, vocabulary, eos_token_id, frozen_tokens,
                    states_to_token_subsets, seen, next_states, result >>

\* A caller lowers an element with an alphabet.
ToFsm ==
    /\ pc = "call"
    /\ \E self \in Elements, alphabet \in ElementAlphabets :
        \E fsm \in to_fsm(self, Some(alphabet)) :
            last_call' = [ op |-> "to_fsm", self |-> self, alphabet |-> alphabet,
                           ret |-> fsm ]
    /\ pc' = "returned"
    /\ UNCHANGED << fsm_info, vocabulary, eos_token_id, frozen_tokens,
                    states_to_token_subsets, seen, next_states, result >>

NextPatterns == ParsePattern \/ ParsePatternToFms \/ ToFsm

SpecPatterns == InitPatterns /\ [][NextPatterns]_vars

\* ---- properties of the parser ----

\* Three octal digits after a backslash are an octal escape.
OctalEscapeAt(str, i) ==
    /\ i + 2 <= Len(str)
    /\ \A j \in i .. i + 2 : ch(str[j]) \in OctalDigits

\* The pattern holds, from position i on, a named or unicode escape, a
\* backreference, or an anchor outside a character class.
RECURSIVE HasUnsupported(_, _, _)
HasUnsupported(str, i, in_class) ==
    IF i > Len(str) THEN FALSE
    ELSE IF str[i] = "\\"
    THEN IF i + 1 > Len(str) THEN FALSE
         ELSE IF str[i + 1] \in {"N", "p", "P", "u", "U"} THEN TRUE
         ELSE IF ~in_class /\ ch(str[i + 1]) \in (ch("1") .. ch("9"))
                 /\ ~OctalEscapeAt(str, i + 1)
         THEN TRUE
         ELSE HasUnsupported(str, i + 2, in_class)
    ELSE IF in_class THEN HasUnsupported(str, i + 1, str[i] # "]")
    ELSE IF str[i] \in {"^", "$"} THEN TRUE
    ELSE HasUnsupported(str, i + 1, str[i] = "[")

\* C24: for every pattern that holds a named or unicode escape (\p \P \u
\* \U \N), an anchor ^ or $ outside a character class, or a backreference,
\* parse_pattern returns a NoMatch error: it neither returns Ok nor aborts.
C24_UnsupportedIsNoMatch ==
    (last_call.op = "parse_pattern" /\ HasUnsupported(last_call.pattern, 1, FALSE))
        => last_call.ret.kind = "Err"

\* The number of backslashes that end the string.
RECURSIVE TrailingBackslashes(_)
TrailingBackslashes(str) ==
    IF Len(str) = 0 \/ str[Len(str)] # "\\" THEN 0
    ELSE 1 + TrailingBackslashes(SubSeq(str, 1, Len(str) - 1))

\* The pattern without its last character.
Front(str) == SubSeq(str, 1, Len(str) - 1)

\* The pattern ends with a '$' that no backslash escapes.
EndsWithUnescapedDollar(str) ==
    /\ Len(str) > 0
    /\ str[Len(str)] = "$"
    /\ TrailingBackslashes(Front(str)) % 2 = 0

\* The pattern is made of plain characters, groups, alternations and
\* repetition operators: it holds no backslash, no character class, no
\* anchor and no extension group "(?".
Plain(str) ==
    /\ \A i \in DOMAIN str : str[i] \notin {"\\", "[", "^", "$"}
    /\ \A i \in 1 .. Len(str) - 1 : ~(str[i] = "(" /\ str[i + 1] = "?")

Edges(fsm) ==
    { << q[1], q[2], FlatTransitions(fsm)[q] >> : q \in DOMAIN FlatTransitions(fsm) }

\* C26: for a pattern made of n literal characters c1..cn,
\* parse_pattern_to_fms returns a DFA with states {0..n}, initial 0, finals
\* {n} and exactly the transitions (i-1, key(ci)) -> i for i = 1..n.
C26_LiteralSequence ==
    (last_call.op = "parse_pattern_to_fms" /\ Len(last_call.pattern) >= 1)
        => /\ last_call.ret.kind = "Ok"
           /\ last_call.ret.fsm.states = 0..Len(last_call.pattern)
           /\ last_call.ret.fsm.initial = 0
           /\ last_call.ret.fsm.finals = { Len(last_call.pattern) }
           /\ Edges(last_call.ret.fsm) =
                { << i - 1, Alphabet_get(last_call.ret.fsm.alphabet, ch(last_call.pattern[i])), i >> :
                    i \in 1..Len(last_call.pattern) }

\* The row of state 0, empty when the map has none.
RowOfInitial(fsm) == IF 0 \in DOMAIN fsm.map THEN fsm.map[0] ELSE NoMap

\* C27: the FSM of a non-inverted CharGroup has an edge (0, A.lookup(c)) -> 1
\* for every character c of the group, also when the characters of the
\* group map to different keys of A.
C27_CharGroupEdges ==
    (/\ last_call.op = "to_fsm"
     /\ last_call.self.type = "CharGroup"
     /\ ~last_call.self.inverted)
        => /\ last_call.ret.kind = "Ok"
           /\ \A c \in last_call.self.chars :
                LET key == Alphabet_get(last_call.alphabet.symbol_mapping, c)
                IN  /\ key \in DOMAIN RowOfInitial(last_call.ret.fsm)
                    /\ RowOfInitial(last_call.ret.fsm)[key] = 1

\* C28: the FSM of an inverted CharGroup(S) has an edge 0 -> 1 on exactly
\* those keys of A that no character of S has, the key of anything_else
\* among them, so it accepts no character of S.
C28_InvertedCharGroup ==
    (/\ last_call.op = "to_fsm"
     /\ last_call.self.type = "CharGroup"
     /\ last_call.self.inverted)
        => /\ last_call.ret.kind = "Ok"
           /\ DOMAIN RowOfInitial(last_call.ret.fsm) =
                { key \in by_transition_keys(last_call.alphabet.symbol_mapping) :
                    \A c \in last_call.self.chars :
                        Alphabet_get(last_call.alphabet.symbol_mapping, c) # key }
           /\ \A key \in DOMAIN RowOfInitial(last_call.ret.fsm) :
                RowOfInitial(last_call.ret.fsm)[key] = 1
           /\ \A c \in last_call.self.chars : ~accepts(last_call.ret.fsm, << c >>)

\* The strings over a and b the languages are compared on.
Words == SeqsUpTo(chars_of({"a", "b"}), MaxLen)

\* The FSM of the repeated element alone, with the same alphabet.
UnitOf(self, alphabet) ==
    (CHOOSE unit \in to_fsm(self.element, Some(alphabet)) : unit.kind = "Ok").fsm

\* C29: the FSM of Repeated(e, n, Some(m)) with n <= m accepts exactly the
\* strings that are a concatenation of k strings of L(e) for some k with
\* n <= k <= m.
C29_BoundedRepeat ==
    (/\ last_call.op = "to_fsm"
     /\ last_call.self.type = "Repeated"
     /\ last_call.self.max # None
     /\ last_call.self.min <= last_call.self.max[1])
        => /\ last_call.ret.kind = "Ok"
           /\ \A w \in Words :
                accepts(last_call.ret.fsm, w)
                    <=> \E k \in last_call.self.min .. last_call.self.max[1] :
                            InPower(UnitOf(last_call.self, last_call.alphabet), k, w)

\* The pattern ends, read from position i on, inside a group, a character
\* class or the braces of a repetition: depth groups are open, and in_class
\* or in_brace tells that a class or a repetition is.  An escaped character
\* opens and closes nothing, a class holds only literals up to its ], and a
\* brace opens a repetition when it follows an element.
RECURSIVE OpenAtEnd(_, _, _, _, _)
OpenAtEnd(str, i, depth, in_class, in_brace) ==
    IF i > Len(str) THEN depth > 0 \/ in_class \/ in_brace
    ELSE IF str[i] = "\\" THEN OpenAtEnd(str, i + 2, depth, in_class, in_brace)
    ELSE IF in_class THEN OpenAtEnd(str, i + 1, depth, str[i] # "]", FALSE)
    ELSE IF in_brace THEN OpenAtEnd(str, i + 1, depth, FALSE, str[i] # "}")
    ELSE IF str[i] = "[" THEN OpenAtEnd(str, i + 1, depth, TRUE, FALSE)
    ELSE IF str[i] = "(" THEN OpenAtEnd(str, i + 1, depth + 1, FALSE, FALSE)
    ELSE IF str[i] = ")" /\ depth > 0 THEN OpenAtEnd(str, i + 1, depth - 1, FALSE, FALSE)
    ELSE IF str[i] = "{" /\ i > 1 /\ str[i - 1] \in {"a", "b", "p", "1", "9", ")", "]"}
    THEN OpenAtEnd(str, i + 1, depth, FALSE, TRUE)
    ELSE OpenAtEnd(str, i + 1, depth, FALSE, FALSE)

\* C40: parse_pattern rejects unbalanced delimiters: a pattern with a ( that
\* has no matching ), a [ with no closing ] or a { with no closing } gives
\* a NoMatch error and no AST.
C40_UnbalancedIsNoMatch ==
    (last_call.op = "parse_pattern" /\ OpenAtEnd(last_call.pattern, 1, 0, FALSE, FALSE))
        => last_call.ret.kind = "Err"

\* ---- reversed and the mirror language ----

\* The input read backwards.
Mirror(input) ==
    [ i \in 1..Len(input) |-> input[Len(input) + 1 - i] ]

\* C34: reversed recognises the mirror language: the reversed FSM accepts
\* an input exactly when the FSM it was made from accepts the input read
\* backwards.
C34_ReversedMirror ==
    last_call.op = "reversed" =>
        \A input \in Inputs :
            accepts(last_call.ret, input) = accepts(last_call.self, Mirror(input))

\* An FSM was reversed whose language is not its own mirror: the reversed
\* FSM accepts an input of two or more symbols that the FSM rejects.
C34_Witness ==
    /\ pc = "returned"
    /\ last_call.op = "reversed"
    /\ \E input \in Inputs :
        /\ Len(input) >= 2
        /\ accepts(last_call.ret, input)
        /\ ~accepts(last_call.self, input)
        /\ accepts(last_call.self, Mirror(input))

\* ------------------------------------------------------------------------
\* outlines-core/src/lib.rs: state_scan_tokens with its pool of workers
\* ------------------------------------------------------------------------

\* let mut n_threads = 16
PoolThreads == 16

\* if n_tokens > 1000
PoolThreshold == 1000

\* The tokens of the pooled vocabularies are the strings of TokenWidth
\* letters a and b; vocabularies of at most MaxUnpooled tokens are scanned
\* besides the one of PoolThreshold + 1 tokens.
TokenWidth == 10
MaxUnpooled == 3

RECURSIVE Pow2(_)
Pow2(n) == IF n = 0 THEN 1 ELSE 2 * Pow2(n - 1)

\* The k-th string of TokenWidth letters in the order of the BTreeMap keys.
PoolToken(k) ==
    [ p \in 1..TokenWidth |-> IF (k \div Pow2(TokenWidth - p)) % 2 = 0 THEN "a" ELSE "b" ]

\* vocabulary_map as the vector of its entries in key order (tokens and
\* token_ids zipped): n entries, led by the empty string when lead is TRUE.
\* An entry has no id, one id or two ids.
PoolVocabulary(n, lead) ==
    [ i \in 1..n |->
        [ token |-> IF lead THEN (IF i = 1 THEN <<>> ELSE PoolToken(i - 2))
                    ELSE PoolToken(i - 1),
          token_ids |-> CASE i % 3 = 1 -> << i - 1 >>
                          [] i % 3 = 2 -> << i - 1, Pow2(TokenWidth + 1) + i >>
                          [] OTHER -> << >> ] ]

\* The DFA of the scans: a is mapped, b falls to alphabet_anything_value.
PoolFsm ==
    FSMInfo(0, {1},
            (<<0, 1>> :> 0) @@ (<<0, 2>> :> 1) @@ (<<1, 1>> :> 1) @@ (<<1, 2>> :> 2)
                @@ (<<2, 1>> :> 2),
            2, ("a" :> 1))

\* for symbol in input_string.chars() of walk_fsm, from symbol i on.
RECURSIVE PoolWalkLoop(_, _, _, _, _, _, _)
PoolWalkLoop(fsm, input_string, full_match, i, state, accepted_states, reached) ==
    IF i > Len(input_string)
    THEN IF full_match /\ ~reached THEN <<>> ELSE accepted_states
    ELSE LET trans_key == IF input_string[i] \in DOMAIN fsm.alphabet_symbol_mapping
                          THEN fsm.alphabet_symbol_mapping[input_string[i]]
                          ELSE fsm.alphabet_anything_value
         IN IF << state, trans_key >> \in DOMAIN fsm.transitions
            THEN LET new_state == fsm.transitions[<< state, trans_key >>]
                 IN PoolWalkLoop(fsm, input_string, full_match, i + 1, new_state,
                                 Append(accepted_states, new_state),
                                 reached \/ new_state \in fsm.finals)
            ELSE IF ~full_match /\ reached
                 THEN accepted_states
                 ELSE <<>>

\* walk_fsm of lib.rs: the states entered while reading input_string.
walk_fsm(fsm, input_string, start_state, full_match) ==
    PoolWalkLoop(fsm, input_string, full_match, 1, start_state, <<>>, FALSE)

\* One round of for i in 0..token_chunk.len() of a worker's closure: the
\* pairs pushed for one entry, or the panic of state_seq[state_seq.len() - 1]
\* for an empty state_seq.
scan_entry(fsm, entry, start_state) ==
    LET pushed(state_seq) ==
            IF Len(state_seq) < Len(entry.token)
            THEN [ panicked |-> FALSE, res |-> <<>> ]
            ELSE IF entry.token_ids = <<>>
            THEN [ panicked |-> FALSE, res |-> <<>> ]
            ELSE IF Len(state_seq) = 0
            THEN [ panicked |-> TRUE, res |-> <<>> ]
            ELSE [ panicked |-> FALSE,
                   res |-> [ j \in 1..Len(entry.token_ids) |->
                               << entry.token_ids[j], state_seq[Len(state_seq)] >> ] ]
    IN pushed(walk_fsm(fsm, entry.token, start_state, FALSE))

\* res after the rounds lo..hi of the loop, when none of them panics.
RECURSIVE ScanRounds(_, _, _, _, _)
ScanRounds(fsm, chunk, start_state, lo, hi) ==
    IF lo > hi THEN <<>>
    ELSE IF lo = hi THEN scan_entry(fsm, chunk[lo], start_state).res
    ELSE ScanRounds(fsm, chunk, start_state, lo, (lo + hi) \div 2)
             \o ScanRounds(fsm, chunk, start_state, (lo + hi) \div 2 + 1, hi)

\* The closure a worker runs on its slice of the entries: it panics in the
\* first round that panics, and returns res otherwise.
scan_chunk(fsm, chunk, start_state) ==
    IF \E i \in DOMAIN chunk : scan_entry(fsm, chunk[i], start_state).panicked
    THEN [ panicked |-> TRUE, res |-> <<>> ]
    ELSE [ panicked |-> FALSE, res |-> ScanRounds(fsm, chunk, start_state, 1, Len(chunk)) ]

\* n_tokens / n_threads, rounded down.
tokens_per_thread_floor(n_tokens, n_threads) ==
    n_tokens \div n_threads

\* (n_tokens as f32 / n_threads as f32).ceil() as usize
tokens_per_thread(n_tokens, n_threads) ==
    (n_tokens + n_threads - 1) \div n_threads

\* for i in 0..n_threads of the pooled branch, from thread i on: a slice is
\* pushed when it starts inside the vocabulary.
RECURSIVE ChunkLoop(_, _, _, _)
ChunkLoop(n_tokens, n_threads, i, chunks) ==
    IF i >= n_threads THEN chunks
    ELSE LET start_at == i * tokens_per_thread(n_tokens, n_threads)
             end_raw == start_at + tokens_per_thread(n_tokens, n_threads)
             end_at == IF end_raw > n_tokens THEN n_tokens ELSE end_raw
         IN ChunkLoop(n_tokens, n_threads, i + 1,
                      IF start_at < n_tokens
                      THEN Append(chunks, << start_at, end_at >>)
                      ELSE chunks)

\* token_chunks and n_threads as state_scan_tokens leaves them before it
\* spawns its workers.
token_chunks(n_tokens) ==
    IF n_tokens > PoolThreshold
    THEN [ n_threads |-> PoolThreads,
           chunks |-> ChunkLoop(n_tokens, PoolThreads, 0, <<>>) ]
    ELSE [ n_threads |-> 1, chunks |-> << << 0, n_tokens >> >> ]

\* The scans a caller asks for.
PoolSizes == (0..MaxUnpooled) \cup { PoolThreshold + 1 }
PoolStarts == { 0, 2 }

PoolScans ==
    { [ n_tokens |-> n, lead |-> lead, start_state |-> s ] :
        n \in PoolSizes, lead \in BOOLEAN, s \in PoolStarts }

InitPool ==
    /\ fsm_info = PoolFsm
    /\ vocabulary = NoMap
    /\ eos_token_id = 0
    /\ frozen_tokens = {}
    /\ states_to_token_subsets = NoMap
    /\ seen = {}
    /\ next_states = {}
    /\ pc = "call"
    /\ result = "none"
    /\ last_call = NoCall

\* The slice of the entries that the worker of thread t is given.
slice_of(scan, t) ==
    LET split == token_chunks(scan.n_tokens)
    IN SubSeq(PoolVocabulary(scan.n_tokens, scan.lead),
              split.chunks[t][1] + 1, split.chunks[t][2])

\* What the closure of each worker of a scan computes.  The closure reads
\* its own copies of its slice and the shared immutable DFA, so its result
\* is a function of the scan and the thread alone; it is tabulated here.
worker_res ==
    [ scan \in PoolScans |->
        [ t \in 1..Len(token_chunks(scan.n_tokens).chunks) |->
            scan_chunk(PoolFsm, slice_of(scan, t), scan.start_state) ] ]

\* state_scan_tokens up to the end of the first collect of thread::scope:
\* the slices are computed and every worker is spawned with a copy of its
\* slice.  token_chunks[thread_id] of a slice that was not pushed panics.
PoolSpawn ==
    /\ pc = "call"
    /\ \E scan \in PoolScans :
        LET split == token_chunks(scan.n_tokens)
        IN IF Len(split.chunks) < split.n_threads
           THEN /\ pc' = "panicked"
                /\ last_call' = [ op |-> "state_scan_tokens", scan |-> scan,
                                  token_chunks |-> split.chunks,
                                  outputs |-> <<>>, ret |-> <<>> ]
           ELSE /\ pc' = "pool"
                /\ last_call' =
                     [ op |-> "state_scan_tokens", scan |-> scan,
                       token_chunks |-> split.chunks,
                       outputs |-> [ t \in 1..split.n_threads |-> None ],
                       ret |-> <<>> ]
    /\ UNCHANGED << fsm_info, vocabulary, eos_token_id, frozen_tokens,
                    states_to_token_subsets, seen, next_states, result >>

\* A spawned worker runs its closure to the end: its res, or its panic, is
\* what its handle will give.
PoolWork ==
    /\ pc = "pool"
    /\ \E t \in DOMAIN last_call.outputs :
        /\ last_call.outputs[t] = None
        /\ last_call' = [ last_call EXCEPT !.outputs[t] =
                            Some(worker_res[last_call.scan][t]) ]
    /\ UNCHANGED << fsm_info, vocabulary, eos_token_id, frozen_tokens,
                    states_to_token_subsets, seen, next_states, pc, result >>

RECURSIVE FlattenOutputs(_, _)
FlattenOutputs(outputs, t) ==
    IF t > Len(outputs) THEN <<>> ELSE outputs[t][1].res \o FlattenOutputs(outputs, t + 1)

\* Every handle is joined in thread order and the outputs are flattened;
\* handle.join().expect panics for a worker that panicked.
PoolJoin ==
    /\ pc = "pool"
    /\ \A t \in DOMAIN last_call.outputs : last_call.outputs[t] # None
    /\ IF \E t \in DOMAIN last_call.outputs : last_call.outputs[t][1].panicked
       THEN /\ pc' = "panicked"
            /\ UNCHANGED last_call
       ELSE /\ pc' = "returned"
            /\ last_call' = [ last_call EXCEPT !.ret = FlattenOutputs(last_call.outputs, 1) ]
    /\ UNCHANGED << fsm_info, vocabulary, eos_token_id, frozen_tokens,
                    states_to_token_subsets, seen, next_states, result >>

NextPool == PoolSpawn \/ PoolWork \/ PoolJoin

SpecPool == InitPool /\ [][NextPool]_vars

\* ---- properties of the pooled scan ----

\* The entry of a pooled vocabulary that carries a token id (1-based).
EntryOf(token_id) ==
    IF token_id >= Pow2(TokenWidth + 1) THEN token_id - Pow2(TokenWidth + 1)
    ELSE token_id + 1

\* The slices of a scan cut the entries 0..n_tokens-1 into consecutive
\* pieces.
Partitions(chunks, n_tokens) ==
    /\ chunks # <<>>
    /\ chunks[1][1] = 0
    /\ chunks[Len(chunks)][2] = n_tokens
    /\ \A t \in DOMAIN chunks : chunks[t][1] <= chunks[t][2]
    /\ \A t \in 1..(Len(chunks) - 1) : chunks[t][2] = chunks[t + 1][1]

\* The pairs of a result vector, as a set.
PairsOf(res) ==
    { res[j] : j \in DOMAIN res }

\* The scan of the whole vocabulary by one loop, without a pool: it fails
\* when an entry with an id has an empty walk that is not shorter than its
\* token, and otherwise gives the pairs of every entry whose walk is as long
\* as its token.
SequentialPanics(scan) ==
    \E entry \in PairsOf(PoolVocabulary(scan.n_tokens, scan.lead)) :
        LET state_seq == walk_fsm(fsm_info, entry.token, scan.start_state, FALSE)
        IN /\ ~(Len(state_seq) < Len(entry.token))
           /\ entry.token_ids # <<>>
           /\ Len(state_seq) = 0

SequentialPairs(scan) ==
    UNION { LET state_seq == walk_fsm(fsm_info, entry.token, scan.start_state, FALSE)
            IN IF Len(state_seq) < Len(entry.token)
               THEN {}
               ELSE { << entry.token_ids[j], state_seq[Len(state_seq)] >> :
                        j \in DOMAIN entry.token_ids }
            : entry \in PairsOf(PoolVocabulary(scan.n_tokens, scan.lead)) }

\* C33: the token slices partition the vocabulary, so every token is
\* scanned by exactly one worker, and a vocabulary of at most 1000 tokens is
\* scanned as one slice by one worker; a worker's result buffer holds pairs
\* of the tokens of its own slice only; and for every interleaving of the
\* workers the merged result is, as a set of (token_id, end_state) pairs,
\* the result of the sequential scan (which fails exactly when the pooled
\* scan fails).
C33_PoolEqualsSequential ==
    last_call.op = "state_scan_tokens" =>
        /\ Partitions(last_call.token_chunks, last_call.scan.n_tokens)
        /\ DOMAIN last_call.outputs = DOMAIN last_call.token_chunks
        /\ last_call.scan.n_tokens <= PoolThreshold =>
               last_call.token_chunks = << << 0, last_call.scan.n_tokens >> >>
        /\ \A t \in DOMAIN last_call.outputs :
               last_call.outputs[t] # None =>
                   \A j \in DOMAIN last_call.outputs[t][1].res :
                       LET k == EntryOf(last_call.outputs[t][1].res[j][1])
                       IN /\ last_call.token_chunks[t][1] < k
                          /\ k <= last_call.token_chunks[t][2]
        /\ pc # "pool" =>
               \A k \in 0..(last_call.scan.n_tokens - 1) :
                   Cardinality({ t \in DOMAIN last_call.token_chunks :
                                   /\ last_call.token_chunks[t][1] <= k
                                   /\ k < last_call.token_chunks[t][2] }) = 1
        /\ pc = "returned" =>
               /\ ~SequentialPanics(last_call.scan)
               /\ PairsOf(last_call.ret) = SequentialPairs(last_call.scan)
        /\ pc = "panicked" => SequentialPanics(last_call.scan)

\* A pooled scan has returned pairs that three or more workers found.
C33_Witness ==
    /\ pc = "returned"
    /\ last_call.op = "state_scan_tokens"
    /\ last_call.scan.n_tokens > PoolThreshold
    /\ Len(last_call.token_chunks) = PoolThreads
    /\ Cardinality({ t \in DOMAIN last_call.outputs : last_call.outputs[t][1].res # <<>> }) >= 3
    /\ Len(last_call.ret) >= 3

====
